---------------------------- MODULE Spec2Model ----------------------------
(***************************************************************************)
(* A model of the site-association and scoring engine of                   *)
(* iarpa_smart_metrics/evaluation.py: Evaluation.associate_sites /         *)
(* Evaluation.build_scoreboard (threshold sweep, association decision,     *)
(* tp/fp/fn/tn accounting, best-F1 bookkeeping) and                        *)
(* Evaluation.segment_sites with SiteStack.combine_stacks,                 *)
(* SiteStack.get_slice and Evaluation.stack_comparison (greedy             *)
(* over-segmentation resolution).                                          *)
(*                                                                         *)
(* Conventions                                                             *)
(*  - a ratio (IoU, IoT, IoP, a threshold, a score, F1) is an exact        *)
(*    rational <<n, d>> with d > 0; Python's float comparisons of          *)
(*    correctly rounded quotients of small integers agree with the exact   *)
(*    comparison of the rationals;                                         *)
(*  - a polygon is a finite set of unit cells, its area the number of      *)
(*    cells, intersection and union those of the sets (the geometry is an  *)
(*    external collaborator of the program);                               *)
(*  - a site identifier is a string, modelled as the sequence of its       *)
(*    character codes so that Python's string order and "_".join are       *)
(*    modelled by what they do (codes 1..3 are the digits '1'..'3', code   *)
(*    9 is '_', which sorts after the digits as in ASCII);                 *)
(*  - an optional integer (None or an int) is <<>> or <<n>>;               *)
(*  - a date is a day number.                                              *)
(***************************************************************************)
EXTENDS Integers, Sequences, FiniteSets, TLC

----------------------------------------------------------------------------
(* Rationals *)

Q(n, d) == <<n, d>>

QGeq(a, b) == a[1] * b[2] >= b[1] * a[2]

QLess(a, b) == a[1] * b[2] < b[1] * a[2]

QEq(a, b) == a[1] * b[2] = b[1] * a[2]

QZero == <<0, 1>>

QOne == <<1, 1>>

----------------------------------------------------------------------------
(* Optional integers and Python truthiness *)

NoneVal == <<>>

Some(n) == <<n>>

Truthy(x) == x # <<>> /\ x[1] # 0

Max2(a, b) == IF a >= b THEN a ELSE b

Min2(a, b) == IF a <= b THEN a ELSE b

----------------------------------------------------------------------------
(* Identifiers: strings as sequences of character codes *)

SEP == <<9>>

RECURSIVE StrLess(_, _)
StrLess(a, b) ==
    IF a = <<>> THEN b # <<>>
    ELSE IF b = <<>> THEN FALSE
    ELSE IF Head(a) # Head(b) THEN Head(a) < Head(b)
    ELSE StrLess(Tail(a), Tail(b))

StrLeq(a, b) == a = b \/ StrLess(a, b)

(* sorted(ids): the ascending sequence of a set of distinct strings *)
RECURSIVE SortedIds(_)
SortedIds(S) ==
    IF S = {} THEN <<>>
    ELSE LET m == CHOOSE x \in S : \A y \in S : StrLeq(x, y)
         IN  <<m>> \o SortedIds(S \ {m})

RECURSIVE JoinIds(_)
JoinIds(seq) ==
    IF seq = <<>> THEN <<>>
    ELSE IF Len(seq) = 1 THEN seq[1]
    ELSE seq[1] \o SEP \o JoinIds(Tail(seq))

Range(seq) == {seq[i] : i \in DOMAIN seq}

----------------------------------------------------------------------------
(* Status type lists *)

NEGATIVE_STATUS_TYPES ==
    {"positive_excluded", "negative", "negative_unbounded",
     "transient_negative", "transient_excluded"}

POSITIVE_STATUS_TYPES ==
    {"positive", "positive_annotated", "positive_annotated_static",
     "positive_partial", "positive_partial_static", "positive_pending",
     "transient_positive", "transient_pending"}

IGNORE_STATUS_TYPES == {"ignore", "positive_unbounded", "transient_ignore"}

POSITIVE_ACTIVITY_STATUS_TYPES ==
    {"positive_annotated", "positive_partial", "positive_annotated_static",
     "positive_partial_static"}

POSITIVE_UNBOUNDED_STATUS_TYPES == {"positive_unbounded"}

ANNOTATED_IGNORE_STATUS_TYPES == {"ignore", "transient_ignore"}

ANNOTATED_NEGATIVE_STATUS_TYPES ==
    {"negative", "negative_unbounded", "transient_negative"}

POSITIVE_PARTIAL_STATUS_TYPES == {"positive_partial"}

POSITIVE_COMPLETE_STATUS_TYPES ==
    {"positive", "positive_annotated", "positive_annotated_static",
     "positive_pending", "transient_positive", "transient_pending"}

(* the statuses s of the vocabulary for which  "transient" in s  is true *)
HasTransient(status) ==
    status \in {"transient_negative", "transient_excluded",
                "transient_positive", "transient_pending",
                "transient_ignore"}


----------------------------------------------------------------------------
(* SiteStack: observations, get_slice, combine_stacks *)

(* An observation (StackSlice) is [date, polygon, phase, source]; its id is *)
(* f"{date}_{source}", so sorting by (date, id) sorts by (date, source).    *)
(* phase and source are sequences of labels: "_".join concatenates them.    *)

SliceLeq(a, b) ==
    \/ a.date < b.date
    \/ a.date = b.date /\ StrLeq(a.source, b.source)

(* sorted(slices, key=lambda x: (x.date, x.id)) *)
RECURSIVE SortSlices(_)
SortSlices(S) ==
    IF S = {} THEN <<>>
    ELSE LET m == CHOOSE x \in S : \A y \in S : SliceLeq(x, y)
         IN  <<m>> \o SortSlices(S \ {m})

LastOrNone(seq) == IF seq # <<>> THEN <<seq[Len(seq)]>> ELSE <<>>

(* get_slice(date, exact=True): only an observation of that very date *)
get_slice_exact(stack, date) ==
    LastOrNone(SortSlices({sl \in Range(stack.slices) : sl.date = date}))

(* the oldest observation that is not newer than the date *)
get_slice_oldest(stack, date) ==
    LET prev_slices == SortSlices({sl \in Range(stack.slices) : sl.date <= date})
    IN  IF prev_slices # <<>> THEN <<prev_slices[1]>> ELSE <<>>

(* the most recent observation that is not newer than the date: <<>> for    *)
(* None, <<slice>> otherwise                                                *)
get_slice(stack, date) ==
    LastOrNone(SortSlices({sl \in Range(stack.slices) : sl.date <= date}))

(* "_".join(sorted([str(stack.id) for stack in sm_stacks])) *)
get_sm_stack_id(stacks) == JoinIds(SortedIds({st.id : st \in Range(stacks)}))

RECURSIVE Concat(_)
Concat(seqs) ==
    IF seqs = <<>> THEN <<>> ELSE Head(seqs) \o Concat(Tail(seqs))

(* the part common to all the polygons *)
PolygonOverlap(polygons) ==
    {c \in UNION polygons : \A p \in polygons : c \in p}

PolygonUnion(polygons) == UNION polygons

Area(polygon) == Cardinality(polygon)

MinScore(S) ==
    LET m == CHOOSE x \in S : \A y \in S : QGeq(y, x) IN m

(* the stacks of a list in ascending id order *)
SortedStacks(stacks) ==
    LET ids == SortedIds({st.id : st \in Range(stacks)})
    IN  [i \in DOMAIN ids |->
            CHOOSE st \in Range(stacks) : st.id = ids[i]]

(* the observations that get_slice(date) returns for the members, the None  *)
(* results filtered out                                                     *)
SlicesAt(sorted_stacks, date) ==
    Concat([i \in DOMAIN sorted_stacks |-> get_slice(sorted_stacks[i], date)])

(* the combined observation of one date: the union of the members' slices   *)
CombinedSlice(date, slices) ==
    [date |-> date,
     polygon |-> PolygonUnion({sl.polygon : sl \in Range(slices)}),
     source |-> JoinIds([i \in DOMAIN slices |-> slices[i].source]),
     phase |-> Concat([i \in DOMAIN slices |-> slices[i].phase])]

ObservationDates(gt_stack, stacks) ==
    {sl.date : sl \in Range(gt_stack.slices)}
    \cup UNION {{sl.date : sl \in Range(st.slices)} : st \in Range(stacks)}

CombinedSlices(gt_stack, stacks) ==
    {CombinedSlice(p[1], p[2]) :
        p \in {q \in {<<date, SlicesAt(SortedStacks(stacks), date)>> :
                        date \in ObservationDates(gt_stack, stacks)} :
                 q[2] # <<>>}}

CombinedStack(gt_stack, stacks, sorted_stacks, combined, activity_dates) ==
    [id |-> get_sm_stack_id(stacks),
     status |-> gt_stack.status,
     sites |-> [i \in DOMAIN sorted_stacks |-> sorted_stacks[i].id],
     score |-> MinScore({st.score : st \in Range(stacks)}),
     slices |-> SortSlices(combined),
     activity_dates |-> activity_dates,
     len_activity |-> Some(Cardinality(activity_dates)),
     polygon_union |-> PolygonUnion({sl.polygon : sl \in combined}),
     area |-> Q(Area(PolygonUnion({sl.polygon : sl \in combined})), 1),
     association_status |-> gt_stack.association_status]

combine_stacks(gt_stack, stacks) ==
    CombinedStack(gt_stack, stacks, SortedStacks(stacks),
                  CombinedSlices(gt_stack, stacks),
                  UNION {st.activity_dates : st \in Range(stacks)})

----------------------------------------------------------------------------
(* SiteStack.__init__: the activity window and the area of a site *)

DateRange(start, end) == {d \in start[1] .. end[1] : TRUE}

(* start_date / end_date are the site-level dates; earliest, latest and end *)
(* are the activity dates the constructor has read off the phase labels of  *)
(* a positive-activity truth site (None when it found no activity)          *)
SiteStack(id, status, score, slices, start_date, end_date, earliest_start_activity, latest_start_activity, end_of_activity) ==
    LET positive_activity == status \in POSITIVE_ACTIVITY_STATUS_TYPES
        start_activity == IF positive_activity
                          THEN latest_start_activity ELSE start_date
        end_activity == IF positive_activity
                        THEN end_of_activity ELSE end_date
        has_activity == start_activity # <<>> /\ end_activity # <<>>
        activity_dates == IF has_activity
                          THEN DateRange(start_activity, end_activity)
                          ELSE {}
        has_min == /\ positive_activity
                   /\ latest_start_activity # <<>> /\ end_activity # <<>>
        has_max == /\ positive_activity
                   /\ earliest_start_activity # <<>> /\ end_activity # <<>>
        min_activity_dates ==
            IF has_min THEN DateRange(latest_start_activity, end_activity)
            ELSE {}
        max_activity_dates ==
            IF has_max THEN DateRange(earliest_start_activity, end_activity)
            ELSE {}
    IN  [id |-> id,
         sites |-> <<id>>,
         status |-> IF ~has_activity /\ positive_activity
                    THEN "positive_unbounded" ELSE status,
         score |-> score,
         slices |-> slices,
         start_date |-> start_date,
         end_date |-> end_date,
         start_activity |-> start_activity,
         end_activity |-> end_activity,
         activity_dates |-> activity_dates,
         len_activity |-> IF has_activity
                          THEN Some(Cardinality(activity_dates))
                          ELSE NoneVal,
         min_activity_dates |-> min_activity_dates,
         len_min_activity |-> IF has_min
                              THEN Some(Cardinality(min_activity_dates))
                              ELSE NoneVal,
         max_activity_dates |-> max_activity_dates,
         polygon_union |-> PolygonUnion({sl.polygon : sl \in Range(slices)}),
         area |-> Q(Area(PolygonUnion({sl.polygon : sl \in Range(slices)})),
                    1),
         association_status |-> "None"]


(* SiteStack.__init__ from the annotated site and the region model.         *)
(* The site start and end dates are clipped to the region model's: a        *)
(* missing date becomes the region's and makes the site an "ignore" site, a *)
(* given start date is raised to the region start unless the site ends      *)
(* before it, a given end date is lowered to the region end unless the site *)
(* starts after it. Positive-activity sites keep their bounded observations *)
(* only and read their activity dates off the phase labels.                 *)
SiteStackInRegion(id, annotated_status, score, slices, site_start_date, site_end_date, region_model) ==
    LET start_date ==
            IF site_start_date # NoneVal
            THEN IF \/ site_end_date = NoneVal
                    \/ site_end_date[1] >= region_model.start_date
                 THEN Some(Max2(site_start_date[1], region_model.start_date))
                 ELSE site_start_date
            ELSE Some(region_model.start_date)
        end_date ==
            IF site_end_date # NoneVal
            THEN IF start_date[1] <= region_model.end_date
                 THEN Some(Min2(site_end_date[1], region_model.end_date))
                 ELSE site_end_date
            ELSE Some(region_model.end_date)
        status ==
            IF site_start_date = NoneVal \/ site_end_date = NoneVal
            THEN "ignore" ELSE annotated_status
        bounded_slices ==
            SelectSeq(slices, LAMBDA x :
                /\ region_model.start_date <= x.date
                /\ x.date <= region_model.end_date)
        pre_slices ==
            SelectSeq(slices, LAMBDA x : x.date < region_model.start_date)
        active(sl) ==
            sl.phase \in {<<"Site Preparation">>, <<"Active Construction">>}
        has_activity(some_slices) == \E sl \in Range(some_slices) : active(sl)
        first_date(some_slices) ==
            IF some_slices = <<>> THEN NoneVal ELSE Some(some_slices[1].date)
        latest_start_activity ==
            IF /\ has_activity(pre_slices)
               /\ \/ has_activity(bounded_slices)
                  \/ \E sl \in Range(bounded_slices) :
                         sl.phase = <<"Post Construction">>
            THEN Some(region_model.start_date)
            ELSE first_date(SelectSeq(bounded_slices, active))
        quiet_dates ==
            {sl.date : sl \in
                {x \in Range(pre_slices) \cup Range(bounded_slices) :
                    /\ x.date <= latest_start_activity[1]
                    /\ x.phase = <<"No Activity">>}}
        earliest_start_activity ==
            IF latest_start_activity = NoneVal THEN NoneVal
            ELSE IF quiet_dates = {} THEN latest_start_activity
            ELSE Some(Max2(Min2(CHOOSE d \in quiet_dates :
                                    \A e \in quiet_dates : e <= d,
                                latest_start_activity[1]),
                           region_model.start_date))
        first_post_obs ==
            first_date(SelectSeq(bounded_slices,
                LAMBDA sl : sl.phase = <<"Post Construction">>))
        end_of_activity ==
            IF latest_start_activity = NoneVal THEN NoneVal
            ELSE IF first_post_obs = NoneVal THEN Some(region_model.end_date)
            ELSE Some(Min2(region_model.end_date,
                           Max2(latest_start_activity[1], first_post_obs[1])))
    IN  SiteStack(id, status, score,
                  IF status \in POSITIVE_ACTIVITY_STATUS_TYPES
                  THEN bounded_slices ELSE slices,
                  start_date, end_date, earliest_start_activity,
                  latest_start_activity, end_of_activity)


----------------------------------------------------------------------------
(* Evaluation.update_gt_statuses, for one truth site *)

(* gt_stack carries, besides the fields of SiteStack, annotated_status,     *)
(* unbounded, partial_type, annotated_null_start, annotated_null_end and    *)
(* max_polygon_area; small_site_threshold is given in the unit of the       *)
(* areas; partially_contained tells whether the site is in                  *)
(* partially_contained_gt                                                   *)
update_gt_statuses(gt_stack, activity_type, small_site_threshold, partially_contained) ==
    LET ignored(status) ==
            IF HasTransient(status) THEN "transient_ignore" ELSE "ignore"
        unbounded(status) ==
            IF HasTransient(status) THEN "transient_ignore"
            ELSE "positive_unbounded"
        partial == activity_type \in {"partial", "partialA", "partialB"}
        reset == IF /\ ~gt_stack.annotated_null_start
                    /\ ~gt_stack.annotated_null_end
                 THEN gt_stack.annotated_status ELSE gt_stack.status
        after_the_end ==
            IF activity_type = "completed" THEN unbounded(reset)
            ELSE IF activity_type = "partialA" /\ gt_stack.partial_type = "B"
            THEN unbounded(reset)
            ELSE IF activity_type = "partialB" /\ gt_stack.partial_type = "A"
            THEN ignored(reset)
            ELSE reset
        by_activity ==
            IF reset \in POSITIVE_COMPLETE_STATUS_TYPES
            THEN IF gt_stack.unbounded = 0
                 THEN IF partial THEN ignored(reset) ELSE reset
                 ELSE IF gt_stack.unbounded \in {-2, -1, 2}
                 THEN unbounded(reset)
                 ELSE IF gt_stack.unbounded = 1 THEN after_the_end
                 ELSE reset
            ELSE IF reset \in POSITIVE_PARTIAL_STATUS_TYPES
            THEN IF gt_stack.unbounded = 0
                 THEN IF activity_type = "completed" THEN ignored(reset)
                      ELSE IF /\ activity_type = "partialA"
                              /\ gt_stack.partial_type = "B"
                      THEN unbounded(reset)
                      ELSE IF /\ activity_type = "partialB"
                              /\ gt_stack.partial_type = "A"
                      THEN ignored(reset)
                      ELSE reset
                 ELSE IF gt_stack.unbounded \in {-2, -1, 2}
                 THEN unbounded(reset)
                 ELSE IF gt_stack.unbounded = 1 THEN after_the_end
                 ELSE reset
            ELSE reset
        status ==
            IF /\ gt_stack.status \notin ANNOTATED_NEGATIVE_STATUS_TYPES
               /\ gt_stack.max_polygon_area # 0
               /\ gt_stack.max_polygon_area <= small_site_threshold
            THEN ignored(gt_stack.status)
            ELSE IF partially_contained THEN ignored(gt_stack.status)
            ELSE by_activity
        has_dates == gt_stack.start_date # NoneVal /\ gt_stack.end_date # NoneVal
    IN  IF status \in IGNORE_STATUS_TYPES
        THEN [gt_stack EXCEPT
                 !.status = status,
                 !.start_activity = gt_stack.start_date,
                 !.end_activity = gt_stack.end_date,
                 !.activity_dates =
                     IF has_dates
                     THEN DateRange(gt_stack.start_date, gt_stack.end_date)
                     ELSE {},
                 !.len_activity =
                     IF has_dates
                     THEN Some(Cardinality(DateRange(gt_stack.start_date,
                                                     gt_stack.end_date)))
                     ELSE NoneVal]
        ELSE [gt_stack EXCEPT !.status = status]

----------------------------------------------------------------------------
(* Metric.calc_iou / calc_iot and Evaluation.stack_comparison *)

calc_iou(truth, proposal) ==
    IF Area(truth \cap proposal) # 0
    THEN Q(Area(truth \cap proposal), Area(truth \cup proposal))
    ELSE QZero

(* intersection over the area of the first argument *)
calc_iot(first, second) ==
    IF Area(first \cap second) # 0
    THEN Q(Area(first \cap second), Area(first))
    ELSE QZero

(* the truth observations that are compared: no "No Activity" observation,  *)
(* no "Post Construction" observation after the first one                   *)
RECURSIVE ValidSlices(_, _)
ValidSlices(slices, seen_post_construction) ==
    IF slices = <<>> THEN <<>>
    ELSE LET gt_slice == Head(slices)
         IN  IF gt_slice.phase = <<"No Activity">>
             THEN ValidSlices(Tail(slices), seen_post_construction)
             ELSE IF gt_slice.phase = <<"Post Construction">>
             THEN IF seen_post_construction
                  THEN ValidSlices(Tail(slices), TRUE)
                  ELSE <<gt_slice>> \o ValidSlices(Tail(slices), TRUE)
             ELSE <<gt_slice>>
                  \o ValidSlices(Tail(slices), seen_post_construction)

ComparisonRowOf(gt_slice, sm_slice) ==
    IF sm_slice # <<>>
    THEN [date |-> gt_slice.date,
          source |-> gt_slice.source,
          iou |-> calc_iou(gt_slice.polygon, sm_slice[1].polygon),
          iot |-> calc_iot(gt_slice.polygon, sm_slice[1].polygon),
          iop |-> calc_iot(sm_slice[1].polygon, gt_slice.polygon)]
    ELSE [date |-> gt_slice.date,
          source |-> gt_slice.source,
          iou |-> QZero, iot |-> QZero, iop |-> QZero]

ComparisonRow(gt_slice, sm_stack) ==
    ComparisonRowOf(gt_slice, get_slice(sm_stack, gt_slice.date))

(* df.sort_values(by=["date", "iou", "source"]) *)
RowLeq(a, b) ==
    \/ a.date < b.date
    \/ /\ a.date = b.date
       /\ \/ QLess(a.iou, b.iou)
          \/ QEq(a.iou, b.iou) /\ StrLeq(a.source, b.source)

RECURSIVE SortRows(_)
SortRows(S) ==
    IF S = {} THEN <<>>
    ELSE LET m == CHOOSE x \in S : \A y \in S : RowLeq(x, y)
         IN  <<m>> \o SortRows(S \ {m})

(* drop_duplicates with keep="first": the lowest row of each date stays *)
DropDuplicateDatesKeepFirst(rows) ==
    SelectSeq(rows, LAMBDA r :
        \A q \in Range(rows) : q.date = r.date => RowLeq(r, q))

(* df.drop_duplicates(subset=["date"], keep="last") on the sorted rows *)
DropDuplicateDates(rows) ==
    SelectSeq(rows, LAMBDA r :
        \A q \in Range(rows) : q.date = r.date => RowLeq(q, r))

ComparisonRows(valid_slices, sm_stack) ==
    {ComparisonRow(valid_slices[i], sm_stack) : i \in DOMAIN valid_slices}

stack_comparison(gt_stack, sm_stack) ==
    DropDuplicateDates(SortRows(
        ComparisonRows(ValidSlices(gt_stack.slices, FALSE), sm_stack)))

(* SiteStack.check_unary_union: the truth union against the union of the    *)
(* proposal slices found for the truth dates                                *)
check_unary_union(gt_stack, stack) ==
    gt_stack.polygon_union
        \cap PolygonUnion({sm_slice[1].polygon :
                 sm_slice \in {get_slice(stack, gt_stack.slices[i].date) :
                                  i \in DOMAIN gt_stack.slices} \ {<<>>}})

(* the quick check for zero intersection at the head of stack_comparison *)
QuickReject(gt_stack, sm_stack, check) ==
    check /\ check_unary_union(gt_stack, sm_stack) = {}

(* the calls of Metric.calc_iou made by the per-date loop *)
CalcIouCalls(valid_slices, sm_stack) ==
    Cardinality({i \in DOMAIN valid_slices :
                    get_slice(sm_stack, valid_slices[i].date) # <<>>})

(* One call of stack_comparison with its check_unary_union argument: the    *)
(* table returned, the per-date calls of Metric.calc_iou made, and whether  *)
(* the call raised. On the quick path the score columns get one entry per   *)
(* truth slice while valid_slices stays empty, so the "date" column has no  *)
(* entry: the DataFrame cannot be assembled unless the truth stack has no   *)
(* slice at all.                                                            *)
StackComparisonCall(gt_stack, sm_stack, check) ==
    IF QuickReject(gt_stack, sm_stack, check)
    THEN [raised |-> Len(gt_stack.slices) # 0,
          df |-> <<>>,
          calc_iou_calls |-> 0]
    ELSE [raised |-> FALSE,
          df |-> stack_comparison(gt_stack, sm_stack),
          calc_iou_calls |->
              CalcIouCalls(ValidSlices(gt_stack.slices, FALSE), sm_stack)]

----------------------------------------------------------------------------
(* Evaluation.segment_sites, one step at a time *)

(* The state s of a call: its arguments (gt_stack, all_sm_stacks, tau, rho, *)
(* confidence_score_thresholds), its position (pc, ti = index of the        *)
(* confidence threshold of the current iteration) and its locals:           *)
(* results (the returned list of [stack, df]), proposal_cache (id -> df),   *)
(* sm_stacks, detection_scores, remaining_stacks, detection_score, sm_stack.*)
(* compared and removed are histories: the ids handed to score_stack and    *)
(* the candidates taken out of the union, with the iteration they belong to.*)

(* the proportion of truth observations at or above the association         *)
(* threshold, 0 for an empty table                                          *)
DetectionScore(df, tau) ==
    IF Len(df) > 0
    THEN Q(Cardinality({i \in DOMAIN df : QGeq(df[i].iou, tau)}), Len(df))
    ELSE QZero

CachePut(cache, id, df) ==
    [k \in DOMAIN cache \cup {id} |-> IF k = id THEN df ELSE cache[k]]

SegStart(gt_stack, all_sm_stacks, tau, rho, confidence_score_thresholds) ==
    [gt_stack |-> gt_stack,
     all_sm_stacks |-> all_sm_stacks,
     tau |-> tau,
     rho |-> rho,
     confidence_score_thresholds |-> confidence_score_thresholds,
     pc |-> "threshold",
     ti |-> 1,
     results |-> <<>>,
     proposal_cache |-> <<>>,
     sm_stacks |-> <<>>,
     detection_scores |-> <<>>,
     remaining_stacks |-> <<>>,
     detection_score |-> QZero,
     sm_stack |-> NoneVal,
     compared |-> <<>>,
     removed |-> <<>>]

(* save a comparison: results[1], results[2] and the cache *)
SegSave(s, sm_stack, df) ==
    [s EXCEPT
        !.results = Append(@, [stack |-> sm_stack, df |-> df]),
        !.proposal_cache = CachePut(@, sm_stack.id, df),
        !.compared = Append(@, [ti |-> s.ti, id |-> sm_stack.id])]

(* score_stack on a cache miss *)
SegScore(s, sm_stack) ==
    SegSave([s EXCEPT !.sm_stack = sm_stack], sm_stack,
            stack_comparison(s.gt_stack, sm_stack))

(* if len(...) == 1: sm_stack = ...[0] *)
SegBind(s, members) ==
    IF Len(members) = 1 THEN [s EXCEPT !.sm_stack = members[1]] ELSE s

(* the id under which a list of candidates is looked up *)
StackId(members) ==
    IF Len(members) = 1 THEN members[1].id ELSE get_sm_stack_id(members)

(* a variant without the cache: every lookup is a comparison. The lookup    *)
(* the properties below are contrasted with                                 *)
SegLookupUncached(s, sm_stack_id, members) ==
    SegScore(s, IF Len(s.sm_stacks) > 1
                THEN combine_stacks(s.gt_stack, members)
                ELSE s.sm_stack)

(* df = proposal_cache.get(sm_stack_id); on a miss the members are combined *)
(* whenever the filtered list has more than one candidate                   *)
SegLookup(s, sm_stack_id, members) ==
    IF sm_stack_id \in DOMAIN s.proposal_cache
    THEN s
    ELSE SegScore(s, IF Len(s.sm_stacks) > 1
                     THEN combine_stacks(s.gt_stack, members)
                     ELSE s.sm_stack)

SegWithScore(s, sm_stack_id) ==
    [s EXCEPT !.detection_score =
                  DetectionScore(s.proposal_cache[sm_stack_id], s.tau)]

(* every union that has more than one member goes on to the individual     *)
(* comparisons, whatever its detection score                                *)
SegDecideBySizeOnly(s) ==
    IF Len(s.sm_stacks) = 1
    THEN [s EXCEPT !.ti = @ + 1]
    ELSE [s EXCEPT !.pc = "individuals"]

(* if len(sm_stacks) == 1 or detection_score >= rho: continue *)
SegDecide(s) ==
    IF Len(s.sm_stacks) = 1 \/ QGeq(s.detection_score, s.rho)
    THEN [s EXCEPT !.ti = @ + 1]
    ELSE [s EXCEPT !.pc = "individuals"]

SegFiltered(s) ==
    IF Len(s.sm_stacks) = 0
    THEN [s EXCEPT !.ti = @ + 1]
    ELSE SegDecide(SegWithScore(
             SegLookup(SegBind(s, s.sm_stacks), StackId(s.sm_stacks),
                       s.sm_stacks),
             StackId(s.sm_stacks)))

(* the head of one iteration of the confidence threshold loop: filter the   *)
(* candidates, compare the single candidate or the full union, and decide   *)
(* whether the iteration ends here                                          *)
SegThresholdStep(s) ==
    SegFiltered(
        [s EXCEPT
            !.sm_stacks =
                SelectSeq(s.all_sm_stacks, LAMBDA st :
                    QGeq(st.score, s.confidence_score_thresholds[s.ti])),
            !.detection_scores = <<>>,
            !.remaining_stacks = <<>>])

SegNote(s, sm_stack) ==
    [s EXCEPT
        !.detection_scores =
            Append(@, [stack |-> sm_stack,
                       score |-> DetectionScore(s.proposal_cache[sm_stack.id],
                                                s.tau)]),
        !.detection_score =
            DetectionScore(s.proposal_cache[sm_stack.id], s.tau)]

SegScoreOne(s, sm_stack) ==
    SegNote(IF sm_stack.id \in DOMAIN s.proposal_cache
            THEN [s EXCEPT !.sm_stack = sm_stack]
            ELSE SegScore(s, sm_stack),
            sm_stack)

(* compare the truth site with each candidate individually *)
RECURSIVE SegScoreEach(_, _)
SegScoreEach(s, todo) ==
    IF todo = <<>> THEN s
    ELSE SegScoreEach(SegScoreOne(s, Head(todo)), Tail(todo))

(* ascending score, equal scores by descending id *)
DetectionKeyLeqLargestIdFirst(a, b) ==
    \/ QLess(a.score, b.score)
    \/ QEq(a.score, b.score) /\ StrLeq(b.stack.id, a.stack.id)

(* key=lambda x: (x[1], x[0].id) *)
DetectionKeyLeq(a, b) ==
    \/ QLess(a.score, b.score)
    \/ QEq(a.score, b.score) /\ StrLeq(a.stack.id, b.stack.id)

RECURSIVE SortDetectionScores(_)
SortDetectionScores(S) ==
    IF S = {} THEN <<>>
    ELSE LET m == CHOOSE x \in S : \A y \in S : DetectionKeyLeq(x, y)
         IN  <<m>> \o SortDetectionScores(S \ {m})

(* a variant that drops the best candidate instead of the worst: the        *)
(* pruning the properties below are contrasted with                         *)
SegDropBest(s, sorted) ==
    [s EXCEPT
        !.detection_scores = sorted,
        !.remaining_stacks =
            [i \in 1 .. Len(sorted) - 1 |-> sorted[i].stack],
        !.detection_score = Q(-1, 1),
        !.removed = Append(@, [ti |-> s.ti,
                               id |-> sorted[Len(sorted)].stack.id,
                               union |-> {d.stack.id : d \in Range(sorted)}]),
        !.pc = "prune"]

(* the union without the worst candidate, and the loop variable set to -1   *)
SegDropWorst(s, sorted) ==
    [s EXCEPT
        !.detection_scores = sorted,
        !.remaining_stacks = Tail([i \in DOMAIN sorted |-> sorted[i].stack]),
        !.detection_score = Q(-1, 1),
        !.removed = Append(@, [ti |-> s.ti,
                               id |-> sorted[1].stack.id,
                               union |-> {d.stack.id : d \in Range(sorted)}]),
        !.pc = "prune"]

SegSorted(s) ==
    SegDropWorst(s, SortDetectionScores(Range(s.detection_scores)))

(* the individual comparisons, the sort, and the first union without the    *)
(* worst candidate                                                          *)
SegIndividualsStep(s) == SegSorted(SegScoreEach(s, s.sm_stacks))

(* while detection_score <= rho and remaining_stacks *)
SegPruneGuard(s) ==
    QGeq(s.rho, s.detection_score) /\ s.remaining_stacks # <<>>

(* detection_scores.append((sm_stack, detection_score)) and                 *)
(* remaining_stacks.pop(0)                                                  *)
SegPop(s) ==
    [s EXCEPT
        !.detection_scores = Append(@, [stack |-> s.sm_stack,
                                        score |-> s.detection_score]),
        !.remaining_stacks = Tail(@),
        !.removed = Append(@, [ti |-> s.ti,
                               id |-> s.remaining_stacks[1].id,
                               union |-> {st.id :
                                   st \in Range(s.remaining_stacks)}])]

(* one iteration of the pruning loop *)
SegPruneStep(s) ==
    SegPop(SegWithScore(
        SegLookup(SegBind(s, s.remaining_stacks),
                  StackId(s.remaining_stacks), s.remaining_stacks),
        StackId(s.remaining_stacks)))

(* the pruning loop ends: on to the next confidence threshold *)
SegPruneExit(s) == [s EXCEPT !.pc = "threshold", !.ti = s.ti + 1]

SegReturn(s) == [s EXCEPT !.pc = "done"]

SegStep(s) ==
    IF s.pc = "threshold"
    THEN IF s.ti <= Len(s.confidence_score_thresholds)
         THEN SegThresholdStep(s)
         ELSE SegReturn(s)
    ELSE IF s.pc = "individuals" THEN SegIndividualsStep(s)
    ELSE IF SegPruneGuard(s) THEN SegPruneStep(s)
    ELSE SegPruneExit(s)

RECURSIVE SegRun(_)
SegRun(s) == IF s.pc = "done" THEN s ELSE SegRun(SegStep(s))

(* the returned (stacks, tables) of a whole call *)
segment_sites(gt_stack, all_sm_stacks, tau, rho, confidence_score_thresholds) ==
    SegRun(SegStart(gt_stack, all_sm_stacks, tau, rho,
                    confidence_score_thresholds)).results

----------------------------------------------------------------------------
(* State *)

VARIABLES
    gt_sites,            \* Evaluation.gt_stacks: truth id -> truth SiteStack
    sm_stacks,           \* Evaluation.sm_stacks: proposal id -> SiteStack
    stack_comparisons,   \* truth id -> (proposal id -> comparison table)
    cfg,                 \* the threshold lists given to Evaluation.__init__
    pc,                  \* position of the run
    plan,                \* build_scoreboard calls still to make in this sweep
    row_idx,             \* rows of the current call already built
    scoreboard_rows,     \* rows built so far in this sweep, with their tables
    best_metric_score,   \* Evaluation.best_metric_score
    best,                \* the persisted association result and thresholds
    seg,                 \* state of one Evaluation.segment_sites call
    call,                \* one call of a pure function: arguments and result
    mp                   \* the worker pool, the result queue and the counter

vars == <<gt_sites, sm_stacks, stack_comparisons, cfg, pc, plan, row_idx,
          scoreboard_rows, best_metric_score, best, seg, call,
          mp>>

score_vars == <<gt_sites, sm_stacks, stack_comparisons, cfg, pc, plan,
                row_idx, scoreboard_rows, best_metric_score, best, call,
                mp>>

----------------------------------------------------------------------------
(* build_scoreboard: the thresholds of one row *)

(* next(iter([tup[1] for tup in thresholds if tup[0] == name]), default) *)
ThresholdOf(name, thresholds, default) ==
    LET hits == SelectSeq(thresholds, LAMBDA tup : tup[1] = name)
    IN  IF hits # <<>> THEN hits[1][2] ELSE default

RowThresholds(table_threshold_name, table_threshold, row_threshold_name, row_threshold) ==
    LET thresholds == << <<table_threshold_name, table_threshold>>,
                         <<row_threshold_name, row_threshold>> >>
    IN  [tau |-> ThresholdOf("tau", thresholds, cfg.taus[1]),
         rho |-> ThresholdOf("rho", thresholds, cfg.rhos[1]),
         temporal_iot |->
             ThresholdOf("temporal iot", thresholds, cfg.temporal_iots[1]),
         temporal_iop |->
             ThresholdOf("temporal iop", thresholds, cfg.temporal_iops[1]),
         transient_temporal_iot |->
             ThresholdOf("transient temporal iot", thresholds,
                         cfg.transient_temporal_iots[1]),
         transient_temporal_iop |->
             ThresholdOf("transient temporal iop", thresholds,
                         cfg.transient_temporal_iops[1]),
         min_proposal_area |->
             ThresholdOf("min proposal area", thresholds,
                         cfg.min_proposal_areas[1]),
         min_score |->
             ThresholdOf("min proposal confidence score", thresholds,
                         cfg.confidence_score_thresholds[1])]

(* filter proposals by minimum area and confidence: a stack is kept when    *)
(* every one of its member sites passes both cutoffs (for ... else)         *)
SmIdsToKeep(thr) ==
    {sm_id \in DOMAIN sm_stacks :
        \A i \in DOMAIN sm_stacks[sm_id].sites :
            LET site == sm_stacks[sm_id].sites[i]
            IN  /\ ~QLess(sm_stacks[site].area, thr.min_proposal_area)
                /\ ~QLess(sm_stacks[site].score, thr.min_score)}

----------------------------------------------------------------------------
(* build_scoreboard: the association decision for one pair *)

use_iot == TRUE

Column(df, col) == [i \in DOMAIN df |-> df[i][col]]

(* len(list(filter(lambda x: x >= tau, column))) / len(column) *)
FractionGeq(column, tau) ==
    Q(Cardinality({i \in DOMAIN column : QGeq(column[i], tau)}), Len(column))

(* pd.concat([df.head(1), df.tail(1)]) *)
FirstAndLast(df) == <<df[1], df[Len(df)]>>

SpatialOverlap(gt_site, df, tau, rho) ==
    IF gt_site.status \in IGNORE_STATUS_TYPES
    THEN [spatial_overlap |->
              FractionGeq(Column(FirstAndLast(df), "iop"), tau),
          attempted_iot |-> FALSE]
    ELSE LET iou_score == FractionGeq(Column(df, "iou"), tau)
         IN  IF QLess(iou_score, rho) /\ use_iot
             THEN [spatial_overlap |-> FractionGeq(Column(df, "iot"), tau),
                   attempted_iot |-> TRUE]
             ELSE [spatial_overlap |-> iou_score, attempted_iot |-> FALSE]

TemporalOverlap(gt_site, sm_stack) ==
    IF ~Truthy(gt_site.len_activity)
    THEN [tiot |-> QZero, tiop |-> QZero]
    ELSE IF gt_site.status \in POSITIVE_ACTIVITY_STATUS_TYPES
    THEN [tiot |-> Q(Cardinality(gt_site.min_activity_dates
                                 \cap sm_stack.activity_dates),
                     gt_site.len_min_activity[1]),
          tiop |-> Q(Cardinality(gt_site.max_activity_dates
                                 \cap sm_stack.activity_dates),
                     sm_stack.len_activity[1])]
    ELSE [tiot |-> Q(Cardinality(gt_site.activity_dates
                                 \cap sm_stack.activity_dates),
                     gt_site.len_activity[1]),
          tiop |-> Q(Cardinality(gt_site.activity_dates
                                 \cap sm_stack.activity_dates),
                     sm_stack.len_activity[1])]

(* a variant of the rule that never switches to the transient thresholds:   *)
(* the decision the properties below are contrasted with                    *)
DetectedWithoutTransient(status, spatial_overlap, tiot, tiop, thr) ==
    IF status \in IGNORE_STATUS_TYPES
    THEN /\ QGeq(spatial_overlap, thr.rho)
         /\ QGeq(tiop, thr.temporal_iop)
    ELSE /\ QGeq(spatial_overlap, thr.rho)
         /\ QGeq(tiop, thr.temporal_iop)
         /\ QGeq(tiot, thr.temporal_iot)

Detected(status, spatial_overlap, tiot, tiop, thr) ==
    IF status \in IGNORE_STATUS_TYPES
    THEN IF HasTransient(status)
         THEN /\ QGeq(spatial_overlap, thr.rho)
              /\ QGeq(tiop, thr.transient_temporal_iop)
         ELSE /\ QGeq(spatial_overlap, thr.rho)
              /\ QGeq(tiop, thr.temporal_iop)
    ELSE IF HasTransient(status)
         THEN /\ QGeq(spatial_overlap, thr.rho)
              /\ QGeq(tiop, thr.transient_temporal_iop)
              /\ QGeq(tiot, thr.transient_temporal_iot)
         ELSE /\ QGeq(spatial_overlap, thr.rho)
              /\ QGeq(tiop, thr.temporal_iop)
              /\ QGeq(tiot, thr.temporal_iot)

(* the pairs of a truth site that reach the decision: the proposal is       *)
(* retained, both sites have some temporal duration, the table is not empty *)
ScoredSmIds(gt_id, thr) ==
    {sm_id \in (DOMAIN stack_comparisons[gt_id]) \cap SmIdsToKeep(thr) :
        /\ ~(~Truthy(gt_sites[gt_id].len_activity)
             \/ ~Truthy(sm_stacks[sm_id].len_activity))
        /\ stack_comparisons[gt_id][sm_id] # <<>>}

PairRecord(gt_id, sm_id, status, so, to, thr) ==
    [gt_id |-> gt_id,
     sm_id |-> sm_id,
     spatial_overlap |-> so.spatial_overlap,
     tiot |-> to.tiot,
     tiop |-> to.tiop,
     attempted_iot |-> so.attempted_iot,
     detected |-> Detected(status, so.spatial_overlap, to.tiot, to.tiop, thr)]

PairScore(gt_id, sm_id, thr) ==
    PairRecord(gt_id, sm_id, gt_sites[gt_id].status,
               SpatialOverlap(gt_sites[gt_id],
                              stack_comparisons[gt_id][sm_id],
                              thr.tau, thr.rho),
               TemporalOverlap(gt_sites[gt_id], sm_stacks[sm_id]),
               thr)

(* the scored pairs of a truth site: detections[gt_id] are the detected     *)
(* ones, failed_associations the others (lists whose order the code never   *)
(* reads: kept as sets)                                                     *)
PairScores(gt_id, thr) ==
    {PairScore(gt_id, sm_id, thr) : sm_id \in ScoredSmIds(gt_id, thr)}

DetectionsOf(pairs) == {p \in pairs : p.detected}

(* only the undetected pairs with some spatial overlap score *)
FailedOfPartial(pairs) ==
    {p \in pairs : ~p.detected /\ p.spatial_overlap[1] > 0}

FailedOf(pairs) == {p \in pairs : ~p.detected}

----------------------------------------------------------------------------
(* build_scoreboard: choosing the match of a truth site *)

(* a variant of the key order in which the smaller id wins a remaining     *)
(* tie: the choice the properties below are contrasted with                 *)
KeyLessSmallestId(a, b) ==
    \/ Len(sm_stacks[a.sm_id].sites) < Len(sm_stacks[b.sm_id].sites)
    \/ /\ Len(sm_stacks[a.sm_id].sites) = Len(sm_stacks[b.sm_id].sites)
       /\ \/ QLess(a.spatial_overlap, b.spatial_overlap)
          \/ /\ QEq(a.spatial_overlap, b.spatial_overlap)
             /\ StrLess(b.sm_id, a.sm_id)

(* the key of max(detections[gt_id], key=...): the number of member sites,  *)
(* then the spatial overlap, then the proposal id (tuples compare           *)
(* lexicographically)                                                       *)
KeyLess(a, b) ==
    LET na == Len(sm_stacks[a.sm_id].sites)
        nb == Len(sm_stacks[b.sm_id].sites)
    IN  \/ na < nb
        \/ /\ na = nb
           /\ \/ QLess(a.spatial_overlap, b.spatial_overlap)
              \/ /\ QEq(a.spatial_overlap, b.spatial_overlap)
                 /\ StrLess(a.sm_id, b.sm_id)

BestSmId(dets) ==
    IF dets # {}
    THEN (CHOOSE d \in dets : \A e \in dets : e = d \/ KeyLess(e, d)).sm_id
    ELSE <<>>

(* variants of the status-to-outcome table the properties below are        *)
(* contrasted with: one that files a missed positive site as a true         *)
(* negative, one that scores the ignore-type sites like positive ones       *)
GtOutcomeMissedAsTn(status, detected) ==
    IF status \in POSITIVE_STATUS_TYPES
    THEN IF detected THEN "tp" ELSE "tn"
    ELSE IF status \in NEGATIVE_STATUS_TYPES
    THEN IF detected THEN "fp" ELSE "tn"
    ELSE IF status \in IGNORE_STATUS_TYPES THEN "0"
    ELSE "None"

GtOutcomeCountingIgnore(status, detected) ==
    IF status \in POSITIVE_STATUS_TYPES \cup IGNORE_STATUS_TYPES
    THEN IF detected THEN "tp" ELSE "fn"
    ELSE IF status \in NEGATIVE_STATUS_TYPES
    THEN IF detected THEN "fp" ELSE "tn"
    ELSE "None"

(* a table that leaves a truth site without a match unscored *)
GtOutcomeSkippingMissed(status, detected) ==
    IF detected
    THEN IF status \in POSITIVE_STATUS_TYPES THEN "tp"
         ELSE IF status \in NEGATIVE_STATUS_TYPES THEN "fp"
         ELSE "0"
    ELSE "None"

(* score the associations: one pass over the truth sites in dict order *)
GtOutcome(status, detected) ==
    IF detected
    THEN IF status \in POSITIVE_STATUS_TYPES THEN "tp"
         ELSE IF status \in NEGATIVE_STATUS_TYPES THEN "fp"
         ELSE IF status \in POSITIVE_UNBOUNDED_STATUS_TYPES THEN "0"
         ELSE IF status \in ANNOTATED_IGNORE_STATUS_TYPES THEN "0"
         ELSE "None"
    ELSE IF status \in POSITIVE_STATUS_TYPES THEN "fn"
         ELSE IF status \in NEGATIVE_STATUS_TYPES THEN "tn"
         ELSE IF status \in POSITIVE_UNBOUNDED_STATUS_TYPES THEN "0"
         ELSE IF status \in ANNOTATED_IGNORE_STATUS_TYPES THEN "0"
         ELSE "None"

(* the counter incremented in the branch that sets the association status *)
Bump(outcome, counter) == IF outcome = counter THEN 1 ELSE 0

(* a variant that lists the truth site under the matched stack itself, not  *)
(* under its member sites: the bookkeeping the properties below are         *)
(* contrasted with                                                          *)
AssociationUnderStack(gt_id, best_sm_id, outcome, members, acc) ==
    [tp |-> acc.tp + Bump(outcome, "tp"),
     fp |-> acc.fp + Bump(outcome, "fp"),
     fn |-> acc.fn + Bump(outcome, "fn"),
     tn |-> acc.tn + Bump(outcome, "tn"),
     matched_pairs |->
         IF best_sm_id # <<>>
         THEN Append(acc.matched_pairs, <<gt_id, best_sm_id>>)
         ELSE acc.matched_pairs,
     proposals |->
         [sm_id \in DOMAIN acc.proposals |->
             IF sm_id = best_sm_id
             THEN Append(acc.proposals[sm_id], gt_id)
             ELSE acc.proposals[sm_id]],
     association_status |->
         [acc.association_status EXCEPT ![gt_id] = outcome]]

AssociationOf(gt_id, best_sm_id, outcome, members, acc) ==
    [tp |-> acc.tp + Bump(outcome, "tp"),
     fp |-> acc.fp + Bump(outcome, "fp"),
     fn |-> acc.fn + Bump(outcome, "fn"),
     tn |-> acc.tn + Bump(outcome, "tn"),
     matched_pairs |->
         IF best_sm_id # <<>>
         THEN Append(acc.matched_pairs, <<gt_id, best_sm_id>>)
         ELSE acc.matched_pairs,
     proposals |->
         [sm_id \in DOMAIN acc.proposals |->
             IF sm_id \in members
             THEN Append(acc.proposals[sm_id], gt_id)
             ELSE acc.proposals[sm_id]],
     association_status |->
         [acc.association_status EXCEPT ![gt_id] = outcome]]

AssociationWith(gt_id, best_sm_id, acc) ==
    AssociationOf(gt_id, best_sm_id,
        GtOutcome(gt_sites[gt_id].status, best_sm_id # <<>>),
        IF best_sm_id # <<>> THEN Range(sm_stacks[best_sm_id].sites) ELSE {},
        acc)

RECURSIVE ScoreAssociations(_, _, _)
ScoreAssociations(order, detections, acc) ==
    IF order = <<>> THEN acc
    ELSE ScoreAssociations(Tail(order), detections,
             AssociationWith(Head(order), BestSmId(detections[Head(order)]),
                             acc))

(* score the proposals from the statuses of the truth sites they matched *)
ProposalStatus(sm_id, gt_ids, old) ==
    LET match_statuses == {gt_sites[gt_ids[i]].status : i \in DOMAIN gt_ids}
    IN  IF gt_ids = <<>> /\ Len(sm_stacks[sm_id].sites) = 1 THEN "fp"
        ELSE IF match_statuses \cap POSITIVE_STATUS_TYPES # {}
        THEN IF match_statuses \cap NEGATIVE_STATUS_TYPES # {}
             THEN "tpfp" ELSE "tp"
        ELSE IF match_statuses \cap NEGATIVE_STATUS_TYPES # {} THEN "fp"
        ELSE IF match_statuses \cap IGNORE_STATUS_TYPES # {} THEN "0"
        ELSE old

(* a variant that takes every unmatched retained stack, combined or not,    *)
(* for a false alarm: the accounting the properties below are contrasted    *)
(* with                                                                     *)
FalseAlarmsAnyStack(proposals) ==
    {sm_id \in DOMAIN proposals : proposals[sm_id] = <<>>}

(* a variant that does not count again a proposal an earlier row has       *)
(* already marked as a false positive: the accounting the properties below  *)
(* are contrasted with                                                      *)
FalseAlarmsNotYetMarked(proposals) ==
    {sm_id \in DOMAIN proposals :
        /\ proposals[sm_id] = <<>> /\ Len(sm_stacks[sm_id].sites) = 1
        /\ sm_stacks[sm_id].association_status # "fp"}

(* unmatched single proposals: site_types["false alarm"] *)
FalseAlarms(proposals) ==
    {sm_id \in DOMAIN proposals :
        proposals[sm_id] = <<>> /\ Len(sm_stacks[sm_id].sites) = 1}

----------------------------------------------------------------------------
(* Metric *)

(* the miss rate fn / (tp + fn): the ratio the properties below contrast    *)
(* the recall with                                                          *)
MissRate(tp, fn) == IF fn # 0 THEN Q(fn, tp + fn) ELSE QZero

(* the convention that nothing proposed is nothing wrong: a ratio the       *)
(* properties below contrast the precision with                             *)
PrecisionOfNothing(tp, fp) == IF tp + fp # 0 THEN Q(tp, tp + fp) ELSE QOne

calc_precision(tp, fp) == IF tp # 0 THEN Q(tp, tp + fp) ELSE QZero

calc_recall(tp, fn) == IF tp # 0 THEN Q(tp, tp + fn) ELSE QZero

(* tp / (tp + 0.5 * (fp + fn)), written over a common denominator *)
calc_F1(tp, fp, fn) ==
    IF tp # 0 THEN Q(2 * tp, 2 * tp + fp + fn) ELSE QZero

----------------------------------------------------------------------------
(* build_scoreboard: one row *)

GtOrder == <<"g1", "g2">>

GtIds == Range(GtOrder)

(* the status a retained proposal has after the row: the pair loop resets   *)
(* it when the proposal is compared with some truth site, the proposal      *)
(* scoring then sets it                                                     *)
SmStatus(keep, proposals) ==
    [sm_id \in DOMAIN sm_stacks |->
        IF sm_id \in keep
        THEN ProposalStatus(sm_id, proposals[sm_id],
               IF \E gt_id \in GtIds : sm_id \in DOMAIN stack_comparisons[gt_id]
               THEN "None"
               ELSE sm_stacks[sm_id].association_status)
        ELSE sm_stacks[sm_id].association_status]

RowFrom(thr, keep, pairs, acc, false_alarms) ==
    [thr |-> thr,
     tp |-> acc.tp,
     fp |-> acc.fp + Cardinality(false_alarms),
     fn |-> acc.fn,
     tn |-> acc.tn,
     precision |-> calc_precision(acc.tp, acc.fp + Cardinality(false_alarms)),
     recall |-> calc_recall(acc.tp, acc.fn),
     f1 |-> calc_F1(acc.tp, acc.fp + Cardinality(false_alarms), acc.fn),
     truth_sites |-> acc.tp + acc.fn,
     keep |-> keep,
     detections |-> [gt_id \in GtIds |-> DetectionsOf(pairs[gt_id])],
     failed_associations |-> UNION {FailedOf(pairs[gt_id]) : gt_id \in GtIds},
     attempted_iot |->
         {gt_id \in GtIds : \E p \in pairs[gt_id] : p.attempted_iot},
     proposals |-> acc.proposals,
     matched_pairs |-> acc.matched_pairs,
     false_alarms |-> false_alarms,
     gt_status |-> acc.association_status,
     sm_status |-> SmStatus(keep, acc.proposals)]

RowScored(thr, keep, pairs, acc) ==
    RowFrom(thr, keep, pairs, acc, FalseAlarms(acc.proposals))

RowOf(thr, keep, pairs) ==
    RowScored(thr, keep, pairs,
        ScoreAssociations(GtOrder,
            [gt_id \in GtIds |-> DetectionsOf(pairs[gt_id])],
            [tp |-> 0, fp |-> 0, fn |-> 0, tn |-> 0,
             matched_pairs |-> <<>>,
             proposals |-> [sm_id \in keep |-> <<>>],
             association_status |-> [gt_id \in GtIds |-> "None"]]))

ScoreRow(thr) ==
    RowOf(thr, SmIdsToKeep(thr), [gt_id \in GtIds |-> PairScores(gt_id, thr)])

----------------------------------------------------------------------------
(* associate_sites: the threshold sweep *)

(* sorted(list(set(values))) for a list of ratios *)
RECURSIVE SortedValues(_)
SortedValues(S) ==
    IF S = {} THEN <<>>
    ELSE LET m == CHOOSE x \in S : \A y \in S : QGeq(y, x)
         IN  <<m>> \o SortedValues(S \ {m})

(* the threshold names in the order associate_sites appends them *)
AppendOrder ==
    <<"tau", "rho", "min proposal area", "min proposal confidence score",
      "temporal iop", "temporal iot", "transient temporal iop",
      "transient temporal iot">>

(* the same names in Python's string order, which sorted() uses on the      *)
(* (name, values) tuples                                                    *)
NameOrder ==
    <<"min proposal area", "min proposal confidence score", "rho", "tau",
      "temporal iop", "temporal iot", "transient temporal iop",
      "transient temporal iot">>

NameRank(name) == CHOOSE i \in DOMAIN NameOrder : NameOrder[i] = name

RawValues(name) ==
    CASE name = "tau" -> cfg.taus
      [] name = "rho" -> cfg.rhos
      [] name = "min proposal area" -> cfg.min_proposal_areas
      [] name = "min proposal confidence score" ->
             cfg.confidence_score_thresholds
      [] name = "temporal iop" -> cfg.temporal_iops
      [] name = "temporal iot" -> cfg.temporal_iots
      [] name = "transient temporal iop" -> cfg.transient_temporal_iops
      [] name = "transient temporal iot" -> cfg.transient_temporal_iots

threshold_map(name) == SortedValues(Range(RawValues(name)))

(* Evaluation.__init__: sweep_x = len(xs) > 1 *)
sweep(name) == Len(RawValues(name)) > 1

SweptThresholds ==
    LET swept == SelectSeq(AppendOrder, sweep)
    IN  IF Len(swept) = 0
        THEN <<"min proposal area", "min proposal confidence score">>
        ELSE IF Len(swept) = 1
        THEN IF swept[1] = "min proposal confidence score"
             THEN swept \o <<"min proposal area">>
             ELSE swept \o <<"min proposal confidence score">>
        ELSE swept

(* sorted(list(combinations(thresholds, 2))) *)
RECURSIVE SortPairs(_)
SortPairs(S) ==
    IF S = {} THEN <<>>
    ELSE LET m == CHOOSE x \in S : \A y \in S :
                      \/ NameRank(x[1]) < NameRank(y[1])
                      \/ /\ x[1] = y[1]
                         /\ NameRank(x[2]) <= NameRank(y[2])
         IN  <<m>> \o SortPairs(S \ {m})

ThresholdPairs ==
    LET thresholds == SweptThresholds
    IN  SortPairs({<<thresholds[p[1]], thresholds[p[2]]>> :
                     p \in {q \in (DOMAIN thresholds) \X (DOMAIN thresholds) :
                               q[1] < q[2]}})

(* the build_scoreboard calls of one pair: the threshold with fewer values  *)
(* (the first of the sorted pair on a tie) gives the tables, the other one  *)
(* the rows                                                                 *)
CallsOfPair(threshold_pair) ==
    LET first == IF NameRank(threshold_pair[1]) < NameRank(threshold_pair[2])
                 THEN threshold_pair[1] ELSE threshold_pair[2]
        second == IF first = threshold_pair[1]
                  THEN threshold_pair[2] ELSE threshold_pair[1]
        table_threshold_name ==
            IF Len(threshold_map(first)) <= Len(threshold_map(second))
            THEN first ELSE second
        row_threshold_name ==
            IF table_threshold_name = first THEN second ELSE first
        table_thresholds == threshold_map(table_threshold_name)
    IN  [i \in DOMAIN table_thresholds |->
            [table_threshold_name |-> table_threshold_name,
             table_threshold |-> table_thresholds[i],
             row_threshold_name |-> row_threshold_name,
             row_thresholds |-> threshold_map(row_threshold_name)]]

SweepPlan ==
    LET pairs == ThresholdPairs
    IN  Concat([i \in DOMAIN pairs |-> CallsOfPair(pairs[i])])

----------------------------------------------------------------------------
(* compare_stacks (serial processing) *)

(* the proposals a truth site is compared with: their footprints intersect  *)
(* and their date ranges overlap the truth site's activity (or, without     *)
(* activity dates, its site-level dates)                                    *)
PairDict(gt_id) ==
    LET gt == gt_sites[gt_id]
    IN  {sm_id \in DOMAIN sm_stacks :
            /\ gt.polygon_union \cap sm_stacks[sm_id].polygon_union # {}
            /\ IF gt.start_activity # <<>> /\ gt.end_activity # <<>>
               THEN /\ sm_stacks[sm_id].start_date[1] <= gt.end_activity[1]
                    /\ sm_stacks[sm_id].end_date[1] >= gt.start_activity[1]
               ELSE /\ sm_stacks[sm_id].start_date[1] <= gt.end_date[1]
                    /\ sm_stacks[sm_id].end_date[1] >= gt.start_date[1]}

(* for sm_stack, df in zip(sm_stacks, dataframes): file the table under the *)
(* pair and register a stack whose id is not known yet                      *)
RECURSIVE SaveResults(_, _, _)
SaveResults(gt_id, results, acc) ==
    IF results = <<>> THEN acc
    ELSE LET sm_stack == Head(results).stack
             df == Head(results).df
         IN  SaveResults(gt_id, Tail(results),
               [comparisons |->
                    [acc.comparisons EXCEPT
                        ![gt_id] = CachePut(@, sm_stack.id, df)],
                stacks |->
                    IF sm_stack.id \in DOMAIN acc.stacks
                    THEN acc.stacks
                    ELSE CachePut(acc.stacks, sm_stack.id, sm_stack)])

(* the candidate stacks of a truth site, in ascending id order *)
StacksToSegment(gt_id, stacks) ==
    LET sm_ids == SortedIds(PairDict(gt_id))
    IN  [i \in DOMAIN sm_ids |-> stacks[sm_ids[i]]]

RECURSIVE CompareEach(_, _)
CompareEach(order, acc) ==
    IF order = <<>> THEN acc
    ELSE LET gt_id == Head(order)
             results == segment_sites(gt_sites[gt_id],
                            StacksToSegment(gt_id, acc.stacks),
                            QOne, QOne, cfg.confidence_score_thresholds)
         IN  CompareEach(Tail(order), SaveResults(gt_id, results, acc))

compare_stacks ==
    IF DOMAIN sm_stacks = {}
    THEN [comparisons |-> stack_comparisons, stacks |-> sm_stacks]
    ELSE CompareEach(GtOrder,
             [comparisons |-> stack_comparisons, stacks |-> sm_stacks])

----------------------------------------------------------------------------
(* Inputs: the annotated region *)

NumCells == 3

NumDays == 3

Cells == 1 .. NumCells

Days == 1 .. NumDays

Polygons == SUBSET Cells \ {{}}

(* an observation of a site on a date *)
Obs(date, polygon) ==
    [date |-> date, polygon |-> polygon,
     phase |-> <<"Active Construction">>, source |-> <<1>>]

(* a track with one observation per date, in date order *)
Track(polygons) == [i \in DOMAIN polygons |-> Obs(i, polygons[i])]

(* site-level dates and activity dates of a truth site *)
Window(start_date, end_date, earliest, latest, end) ==
    [start_date |-> start_date, end_date |-> end_date,
     earliest |-> earliest, latest |-> latest, end |-> end]

FullWindow == Window(Some(1), Some(NumDays), Some(1), Some(1), Some(NumDays))

TruthWindows ==
    {FullWindow,
     Window(Some(2), Some(2), Some(2), Some(2), Some(2)),
     Window(Some(1), Some(NumDays), Some(1), Some(2), Some(NumDays)),
     Window(Some(1), Some(NumDays), NoneVal, NoneVal, NoneVal)}

Intervals == {iv \in Days \X Days : iv[1] <= iv[2]}

Truth(id, status, window, track) ==
    SiteStack(id, status, QOne, track, window.start_date, window.end_date,
              window.earliest, window.latest, window.end)

Proposal(id, score, interval, track) ==
    SiteStack(id, "system_confirmed", score, track,
              Some(interval[1]), Some(interval[2]),
              NoneVal, NoneVal, NoneVal)

P1 == <<1>>

P2 == <<2>>

Cfg(taus, rhos, temporal_iops, temporal_iots, transient_temporal_iops, transient_temporal_iots, min_proposal_areas, confidence_score_thresholds) ==
    [taus |-> taus, rhos |-> rhos,
     temporal_iops |-> temporal_iops, temporal_iots |-> temporal_iots,
     transient_temporal_iops |-> transient_temporal_iops,
     transient_temporal_iots |-> transient_temporal_iots,
     min_proposal_areas |-> min_proposal_areas,
     confidence_score_thresholds |-> confidence_score_thresholds]

(* the command line defaults of run_evaluation.py *)
DefaultCfg ==
    Cfg(<<Q(1, 5)>>, <<Q(1, 2)>>, <<Q(1, 10)>>, <<Q(1, 5)>>,
        <<Q(1, 10)>>, <<Q(1, 5)>>, <<QZero>>, <<QZero>>)

----------------------------------------------------------------------------
(* Inputs: the evaluated scenes *)

Scene(g1, g2, p1, p2, config) ==
    [g1 |-> g1, g2 |-> g2, p1 |-> p1, p2 |-> p2, cfg |-> config,
     sm_ids |-> {P1, P2}]

G1Footprint == {1, 2}

G2Footprint == {NumCells}

G1Statuses ==
    {"positive_annotated", "positive", "negative", "ignore",
     "positive_unbounded", "transient_positive", "transient_ignore"}

(* scenes that vary the status and activity of a truth site against one    *)
(* proposal that overlaps it more or less, in space and in time             *)
DecisionCfgs ==
    {DefaultCfg,
     Cfg(<<QOne>>, <<Q(9, 10), Q(1, 2), Q(1, 10)>>, <<Q(1, 2)>>, <<Q(1, 2)>>,
         <<Q(1, 10)>>, <<Q(1, 5)>>, <<QZero>>, <<QZero>>),
     Cfg(<<Q(1, 2)>>, <<Q(1, 2)>>, <<QOne>>, <<QOne>>,
         <<Q(1, 2)>>, <<Q(1, 2), QOne>>, <<QZero>>, <<QZero>>),
     Cfg(<<Q(1, 2), QOne>>, <<Q(1, 2), QOne>>, <<Q(1, 2)>>, <<Q(1, 2)>>,
         <<QOne>>, <<QOne>>, <<QZero>>, <<QZero>>)}

DecisionTracks ==
    {Track(<<G1Footprint, G1Footprint>>),
     Track(<<G1Footprint, {1}>>),
     Track(<<Cells, Cells>>),
     Track(<<{1}, {1}>>)}

DecisionScenes ==
    {Scene(Truth("g1", status, window, Track(<<G1Footprint, G1Footprint>>)),
           Truth("g2", "negative", FullWindow,
                 Track(<<G2Footprint, G2Footprint>>)),
           Proposal(P1, QOne, interval, track),
           Proposal(P2, QOne, <<1, NumDays>>,
                    Track(<<G2Footprint, G2Footprint>>)),
           config) :
        status \in G1Statuses, window \in TruthWindows,
        interval \in Intervals, track \in DecisionTracks,
        config \in DecisionCfgs}

(* scenes with two proposals competing for the truth sites *)
ChoiceCfgs ==
    {DefaultCfg,
     Cfg(<<Q(1, 2)>>, <<Q(1, 2)>>, <<Q(1, 2)>>, <<Q(1, 2)>>,
         <<Q(1, 2)>>, <<Q(1, 2)>>, <<QZero>>, <<QZero, QOne>>),
     Cfg(<<QOne>>, <<Q(1, 2)>>, <<Q(1, 10)>>, <<Q(1, 5)>>,
         <<Q(1, 10)>>, <<Q(1, 5)>>, <<QZero, Q(2, 1)>>, <<QZero>>)}

ChoiceTracks ==
    {Track(<<G1Footprint, G1Footprint>>),
     Track(<<{1}, {1}>>),
     Track(<<{2}, {2}>>),
     Track(<<G1Footprint, Cells>>),
     Track(<<G2Footprint, G2Footprint>>)}

ChoiceIntervals == {<<1, 2>>, <<2, NumDays>>, <<1, NumDays>>}

ChoiceScenes ==
    {Scene(Truth("g1", sc[1], sc[2], Track(<<G1Footprint, G1Footprint>>)),
           Truth("g2", sc[3], FullWindow,
                 Track(<<G2Footprint, G2Footprint>>)),
           Proposal(P1, sc[4], sc[5], sc[6]),
           Proposal(P2, QOne, sc[7], sc[8]),
           sc[9]) :
        sc \in {"positive", "negative", "ignore"}
               \X {FullWindow,
                   Window(Some(2), Some(2), Some(2), Some(2), Some(2))}
               \X {"positive", "negative"}
               \X {Q(1, 2), QOne} \X ChoiceIntervals \X ChoiceTracks
               \X ChoiceIntervals \X ChoiceTracks
               \X ChoiceCfgs}

(* scenes with a truth site observed on ten dates and a proposal that       *)
(* covers it up to some date and lies elsewhere afterwards, scored with a   *)
(* sweep of rho                                                             *)
TenDates == 1 .. 10

LongTrack == [d \in TenDates |-> Obs(d, G1Footprint)]

DriftingTracks ==
    {<<Obs(1, G1Footprint), Obs(d, G2Footprint)>> : d \in {4, 8}}
    \cup {<<Obs(1, G1Footprint)>>, <<Obs(1, Cells), Obs(8, G2Footprint)>>}

SweepCfgs ==
    {Cfg(<<tau>>, <<Q(1, 10), Q(1, 2), Q(9, 10)>>, <<Q(1, 10)>>, <<Q(1, 5)>>,
         <<Q(1, 10)>>, <<Q(1, 5)>>, <<QZero>>, confs) :
        tau \in {Q(1, 2), QOne}, confs \in {<<QZero>>, <<QZero, QOne>>}}

SweepScenes ==
    {Scene(Truth("g1", status, FullWindow, LongTrack),
           Truth("g2", "positive", FullWindow,
                 Track(<<G2Footprint, G2Footprint>>)),
           Proposal(P1, score, <<1, NumDays>>, track),
           Proposal(P2, QOne, <<1, NumDays>>, Track(<<{1}, {1}>>)),
           config) :
        status \in {"positive", "positive_annotated", "negative", "ignore"},
        score \in {Q(1, 2), QOne}, track \in DriftingTracks,
        config \in SweepCfgs}

(* scenes of a region for which no proposal was submitted *)
NoProposalScenes ==
    {[sc EXCEPT !.sm_ids = {}] :
        sc \in {dsc \in DecisionScenes :
                   /\ dsc.p1 = Proposal(P1, QOne, <<1, NumDays>>,
                                        Track(<<G1Footprint, G1Footprint>>))
                   /\ dsc.g1.status \in {"positive", "negative", "ignore"}}}

Scenes ==
    DecisionScenes \cup ChoiceScenes \cup SweepScenes \cup NoProposalScenes

----------------------------------------------------------------------------
(* The evaluation run: Evaluation.__init__, compare_stacks, associate_sites *)

SegIdle == [pc |-> "idle"]

NoCall == [name |-> "none"]

(* no pool yet: nothing dispatched, self.queue empty, self.counter = 0 *)
NoPool ==
    [todo |-> <<>>,
     tasks |-> [gt_id \in GtIds |-> "none"],
     results |-> [gt_id \in GtIds |-> <<>>],
     queue |-> <<>>,
     counter |-> 0,
     merged |-> {}]

NoBest ==
    [detections |-> <<>>, proposals |-> <<>>, matched_pairs |-> <<>>,
     thr |-> <<>>]

Init ==
    \E scene \in Scenes :
        /\ gt_sites = [gt_id \in GtIds |->
                          IF gt_id = "g1" THEN scene.g1 ELSE scene.g2]
        /\ sm_stacks = [sm_id \in scene.sm_ids |->
                           IF sm_id = P1 THEN scene.p1 ELSE scene.p2]
        /\ stack_comparisons = [gt_id \in GtIds |-> <<>>]
        /\ cfg = scene.cfg
        /\ pc = "compare"
        /\ plan = <<>>
        /\ row_idx = 0
        /\ scoreboard_rows = <<>>
        /\ best_metric_score = Q(-1, 1)
        /\ best = NoBest
        /\ seg = SegIdle
        /\ call = NoCall
        /\ mp = NoPool

CompareStacks ==
    /\ pc = "compare"
    /\ \E compared \in {compare_stacks} :
           /\ stack_comparisons' = compared.comparisons
           /\ sm_stacks' = compared.stacks
    /\ pc' = "associate"
    /\ UNCHANGED <<gt_sites, cfg, plan, row_idx, scoreboard_rows,
                   best_metric_score, best, seg, call, mp>>

(* associate_sites up to its first build_scoreboard call *)
AssociateSites ==
    /\ pc = "associate"
    /\ best_metric_score' = QZero
    /\ plan' = SweepPlan
    /\ row_idx' = 0
    /\ scoreboard_rows' = <<>>
    /\ pc' = "build"
    /\ UNCHANGED <<gt_sites, sm_stacks, stack_comparisons, cfg, best, seg,
                   call, mp>>

(* a variant that keeps every row as the best one: the bookkeeping the     *)
(* properties below are contrasted with                                     *)
IsBestAlways(f1, best_score) == TRUE

(* if f1 >= self.best_metric_score *)
IsBest(f1, best_score) == QGeq(f1, best_score)

(* one iteration of the row loop of build_scoreboard; after the last row of *)
(* a call the sweep moves on to the next call                               *)
BuildScoreboardRow ==
    /\ pc = "build"
    /\ plan # <<>>
    /\ \E row \in {ScoreRow(RowThresholds(
                      Head(plan).table_threshold_name,
                      Head(plan).table_threshold,
                      Head(plan).row_threshold_name,
                      Head(plan).row_thresholds[row_idx + 1]))} :
           /\ gt_sites' =
                 [gt_id \in DOMAIN gt_sites |->
                     [gt_sites[gt_id] EXCEPT
                         !.association_status = row.gt_status[gt_id]]]
           /\ sm_stacks' =
                 [sm_id \in DOMAIN sm_stacks |->
                     [sm_stacks[sm_id] EXCEPT
                         !.association_status = row.sm_status[sm_id]]]
           /\ scoreboard_rows' = Append(scoreboard_rows, row)
           /\ IF IsBest(row.f1, best_metric_score)
              THEN /\ best_metric_score' = row.f1
                   /\ best' = [detections |-> row.detections,
                               proposals |-> row.proposals,
                               matched_pairs |-> row.matched_pairs,
                               thr |-> row.thr]
              ELSE UNCHANGED <<best_metric_score, best>>
    /\ IF row_idx + 1 = Len(Head(plan).row_thresholds)
       THEN plan' = Tail(plan) /\ row_idx' = 0
       ELSE plan' = plan /\ row_idx' = row_idx + 1
    /\ UNCHANGED <<stack_comparisons, cfg, pc, seg, call, mp>>

(* the sweep is over: associate_sites returns *)
FinishSweep ==
    /\ pc = "build"
    /\ plan = <<>>
    /\ pc' = "done"
    /\ UNCHANGED <<gt_sites, sm_stacks, stack_comparisons, cfg, plan,
                   row_idx, scoreboard_rows, best_metric_score, best, seg,
                   call, mp>>

Next ==
    \/ CompareStacks
    \/ AssociateSites
    \/ BuildScoreboardRow
    \/ FinishSweep

Spec == Init /\ [][Next]_vars

(* The sweep with one build_scoreboard call made twice in a row: when a     *)
(* call has returned, the same call (same held threshold, same row          *)
(* thresholds) is made again before the sweep goes on. call remembers where *)
(* the rows of the first of the two calls start and how many they are.      *)
FinishedCall == SweepPlan[Len(SweepPlan) - Len(plan)]

BuildScoreboardAgain ==
    /\ pc = "build"
    /\ row_idx = 0
    /\ scoreboard_rows # <<>>
    /\ call = NoCall
    /\ plan' = <<FinishedCall>> \o plan
    /\ call' = [name |-> "build_scoreboard",
                rows |-> Len(FinishedCall.row_thresholds),
                first |-> Len(scoreboard_rows)
                          - Len(FinishedCall.row_thresholds) + 1]
    /\ UNCHANGED <<gt_sites, sm_stacks, stack_comparisons, cfg, pc, row_idx,
                   scoreboard_rows, best_metric_score, best, seg, mp>>

AgainNext ==
    \/ CompareStacks
    \/ AssociateSites
    \/ BuildScoreboardRow
    \/ BuildScoreboardAgain
    \/ FinishSweep

AgainSpec == Init /\ [][AgainNext]_vars

----------------------------------------------------------------------------
(* compare_stacks (parallel processing) *)

(* mp.tasks[gt_id] follows the task of a truth site: "none" before          *)
(* apply_async, "queued" in the pool, "returned" or "raised" when a worker  *)
(* process has run segment_sites, "handled" when the pool's result thread   *)
(* has run the callback, "dropped" when it has stored the exception in the  *)
(* AsyncResult, which compare_stacks does not keep. mp.merged is a history: *)
(* the truth sites whose tables the collecting loop has filed.              *)

(* a variant of the callback that files the tables itself: the design the   *)
(* properties below are contrasted with                                     *)
SaveAndMerge(comparisons, queue, counter, gt_id, results) ==
    [comparisons |->
         SaveResults(gt_id, results,
             [comparisons |-> comparisons, stacks |-> <<>>]).comparisons,
     queue |-> queue,
     counter |-> counter]

(* a variant of the callback that forgets to count what it puts *)
PutUncounted(comparisons, queue, counter, gt_id, results) ==
    [comparisons |-> comparisons,
     queue |-> Append(queue, [gt_id |-> gt_id, results |-> results]),
     counter |-> counter]

(* Evaluation.save_mp_results: self.queue.put(args), then the counter under *)
(* the lock                                                                 *)
save_mp_results(comparisons, queue, counter, gt_id, results) ==
    [comparisons |-> comparisons,
     queue |-> Append(queue, [gt_id |-> gt_id, results |-> results]),
     counter |-> counter + 1]

(* the early returns, or the pool is created *)
ParStart ==
    /\ pc = "compare"
    /\ IF DOMAIN sm_stacks = {}
       THEN pc' = "associate" /\ mp' = mp
       ELSE pc' = "dispatch" /\ mp' = [NoPool EXCEPT !.todo = GtOrder]
    /\ UNCHANGED <<gt_sites, sm_stacks, stack_comparisons, cfg, plan, row_idx,
                   scoreboard_rows, best_metric_score, best, seg, call>>

(* pool.apply_async(Evaluation.segment_sites, args=args, callback=...) *)
ParDispatch ==
    /\ pc = "dispatch"
    /\ mp.todo # <<>>
    /\ mp' = [mp EXCEPT !.todo = Tail(@),
                        !.tasks[Head(mp.todo)] = "queued"]
    /\ UNCHANGED <<gt_sites, sm_stacks, stack_comparisons, cfg, pc, plan,
                   row_idx, scoreboard_rows, best_metric_score, best, seg,
                   call>>

(* pool.close(): every task has been sent *)
ParClose ==
    /\ pc = "dispatch"
    /\ mp.todo = <<>>
    /\ pc' = "join"
    /\ UNCHANGED <<gt_sites, sm_stacks, stack_comparisons, cfg, plan, row_idx,
                   scoreboard_rows, best_metric_score, best, seg, call, mp>>

(* a worker process runs segment_sites on the stacks pickled at dispatch *)
WorkerReturns(gt_id) ==
    /\ mp.tasks[gt_id] = "queued"
    /\ mp' = [mp EXCEPT
                 !.tasks[gt_id] = "returned",
                 !.results[gt_id] =
                     segment_sites(gt_sites[gt_id],
                                   StacksToSegment(gt_id, sm_stacks),
                                   QOne, QOne, cfg.confidence_score_thresholds)]
    /\ UNCHANGED <<gt_sites, sm_stacks, stack_comparisons, cfg, pc, plan,
                   row_idx, scoreboard_rows, best_metric_score, best, seg,
                   call>>

(* segment_sites raises in the worker process *)
WorkerRaises(gt_id) ==
    /\ mp.tasks[gt_id] = "queued"
    /\ mp' = [mp EXCEPT !.tasks[gt_id] = "raised"]
    /\ UNCHANGED <<gt_sites, sm_stacks, stack_comparisons, cfg, pc, plan,
                   row_idx, scoreboard_rows, best_metric_score, best, seg,
                   call>>

(* the result thread of the pool calls the callback with the returned value *)
HandleResult(gt_id) ==
    /\ mp.tasks[gt_id] = "returned"
    /\ \E saved \in {save_mp_results(stack_comparisons, mp.queue, mp.counter,
                                      gt_id, mp.results[gt_id])} :
           /\ stack_comparisons' = saved.comparisons
           /\ mp' = [mp EXCEPT !.tasks[gt_id] = "handled",
                               !.queue = saved.queue,
                               !.counter = saved.counter]
    /\ UNCHANGED <<gt_sites, sm_stacks, cfg, pc, plan, row_idx,
                   scoreboard_rows, best_metric_score, best, seg, call>>

(* no error_callback is given and the AsyncResult is not kept: the          *)
(* exception of a failed task goes nowhere                                  *)
HandleError(gt_id) ==
    /\ mp.tasks[gt_id] = "raised"
    /\ mp' = [mp EXCEPT !.tasks[gt_id] = "dropped"]
    /\ UNCHANGED <<gt_sites, sm_stacks, stack_comparisons, cfg, pc, plan,
                   row_idx, scoreboard_rows, best_metric_score, best, seg,
                   call>>

PoolDone == \A gt_id \in GtIds : mp.tasks[gt_id] \in {"handled", "dropped"}

(* pool.join() returns *)
ParJoin ==
    /\ pc = "join"
    /\ PoolDone
    /\ pc' = "collect"
    /\ UNCHANGED <<gt_sites, sm_stacks, stack_comparisons, cfg, plan, row_idx,
                   scoreboard_rows, best_metric_score, best, seg, call, mp>>

(* one iteration of `while self.counter`: queue.get() and the merge *)
ParCollect ==
    /\ pc = "collect"
    /\ mp.counter # 0
    /\ \E acc \in {SaveResults(Head(mp.queue).gt_id, Head(mp.queue).results,
                                [comparisons |-> stack_comparisons,
                                 stacks |-> sm_stacks])} :
           /\ stack_comparisons' = acc.comparisons
           /\ sm_stacks' = acc.stacks
    /\ mp' = [mp EXCEPT !.queue = Tail(@),
                        !.counter = @ - 1,
                        !.merged = @ \cup {Head(mp.queue).gt_id}]
    /\ UNCHANGED <<gt_sites, cfg, pc, plan, row_idx, scoreboard_rows,
                   best_metric_score, best, seg, call>>

(* the counter is back to zero: compare_stacks returns and the run goes on  *)
(* to associate_sites                                                       *)
ParReturn ==
    /\ pc = "collect"
    /\ mp.counter = 0
    /\ pc' = "associate"
    /\ UNCHANGED <<gt_sites, sm_stacks, stack_comparisons, cfg, plan, row_idx,
                   scoreboard_rows, best_metric_score, best, seg, call, mp>>

ParNext ==
    \/ ParStart
    \/ ParDispatch
    \/ ParClose
    \/ \E gt_id \in GtIds : WorkerReturns(gt_id)
    \/ \E gt_id \in GtIds : WorkerRaises(gt_id)
    \/ \E gt_id \in GtIds : HandleResult(gt_id)
    \/ \E gt_id \in GtIds : HandleError(gt_id)
    \/ ParJoin
    \/ ParCollect
    \/ ParReturn

(* two truth sites that both overlap the same two proposals, the second one *)
(* observed on a third date that no proposal has                            *)
SharedScenes ==
    {Scene(Truth("g1", "positive", FullWindow,
                 Track(<<G1Footprint, G1Footprint>>)),
           Truth("g2", "positive", FullWindow,
                 Track(<<G2Footprint, G2Footprint, G2Footprint>>)),
           Proposal(P1, QOne, <<1, NumDays>>, t1),
           Proposal(P2, QOne, <<1, NumDays>>, t2),
           DefaultCfg) :
        t1 \in {Track(<<Cells, Cells>>), Track(<<G1Footprint, Cells>>)},
        t2 \in {Track(<<Cells, Cells>>), <<Obs(2, Cells)>>}}

(* two proposals around a positive truth site, and regions without proposal *)
ParScenes ==
    {scene \in ChoiceScenes :
        /\ scene.cfg = DefaultCfg
        /\ scene.g1.status = "positive" /\ scene.g2.status = "positive"
        /\ scene.g1.start_activity = Some(1)
        /\ QEq(scene.p1.score, QOne)}
    \cup NoProposalScenes \cup SharedScenes

ParInit ==
    \E scene \in ParScenes :
        /\ gt_sites = [gt_id \in GtIds |->
                          IF gt_id = "g1" THEN scene.g1 ELSE scene.g2]
        /\ sm_stacks = [sm_id \in scene.sm_ids |->
                           IF sm_id = P1 THEN scene.p1 ELSE scene.p2]
        /\ stack_comparisons = [gt_id \in GtIds |-> <<>>]
        /\ cfg = scene.cfg
        /\ pc = "compare"
        /\ plan = <<>>
        /\ row_idx = 0
        /\ scoreboard_rows = <<>>
        /\ best_metric_score = Q(-1, 1)
        /\ best = NoBest
        /\ seg = SegIdle
        /\ call = NoCall
        /\ mp = NoPool

ParSpec == ParInit /\ [][ParNext]_vars

(* the main thread keeps running: it is never suspended for ever between    *)
(* two statements of compare_stacks                                         *)
MainThread ==
    \/ ParStart
    \/ ParDispatch
    \/ ParClose
    \/ ParJoin
    \/ ParCollect
    \/ ParReturn

ParFairSpec == ParInit /\ [][ParNext]_vars /\ WF_vars(MainThread)

----------------------------------------------------------------------------
(* One segment_sites call on its own, for any tau and rho *)

MaxCandidates == 3

(* a candidate observes the site on one or both of the truth dates, each    *)
(* time covering some part of the truth footprint, or on one of the dates   *)
(* the truth footprint and more, or on both dates a part of the footprint   *)
(* and as much outside it                                                   *)
SegPolygons == SUBSET G1Footprint \ {{}}

Spill == {1, NumCells}

SegTracks ==
    {Track(<<a, b>>) : a \in SegPolygons, b \in SegPolygons}
    \cup {<<Obs(d, a)>> : d \in {1, 2}, a \in SegPolygons}
    \cup {Track(<<Cells, G1Footprint>>), Track(<<G1Footprint, Cells>>),
          Track(<<Spill, Spill>>)}

ExtraTracks ==
    {Track(<<G1Footprint, G1Footprint>>), Track(<<{1}, {1}>>),
     <<Obs(2, {2})>>}

Candidate(k, score, track) ==
    Proposal(<<k>>, score, <<1, NumDays>>, track)

(* the candidate lists: two freely drawn candidates, then up to             *)
(* MaxCandidates - 2 more from a smaller family                             *)
RECURSIVE CandidateLists(_)
CandidateLists(n) ==
    IF n = 2
    THEN {<<Candidate(1, score, t1), Candidate(2, QOne, t2)>> :
             score \in {Q(1, 2), QOne}, t1 \in SegTracks, t2 \in SegTracks}
    ELSE {Append(l, Candidate(n, QOne, t)) :
             l \in CandidateLists(n - 1), t \in ExtraTracks}

SegInputs ==
    {SegStart(Truth("g1", "positive", FullWindow,
                    Track(<<G1Footprint, G1Footprint>>)),
              in[1], in[2], in[3], in[4]) :
        in \in (UNION {CandidateLists(n) : n \in 2 .. MaxCandidates})
               \X {Q(1, 2), QOne} \X {Q(1, 2), QOne}
               \X {<<QZero>>, <<QZero, QOne>>}}

SegInit ==
    /\ seg \in SegInputs
    /\ gt_sites = <<>>
    /\ sm_stacks = <<>>
    /\ stack_comparisons = <<>>
    /\ cfg = DefaultCfg
    /\ pc = "segment"
    /\ plan = <<>>
    /\ row_idx = 0
    /\ scoreboard_rows = <<>>
    /\ best_metric_score = Q(-1, 1)
    /\ best = NoBest
    /\ call = NoCall
    /\ mp = NoPool

SegThreshold ==
    /\ seg.pc = "threshold"
    /\ seg.ti <= Len(seg.confidence_score_thresholds)
    /\ seg' = SegThresholdStep(seg)
    /\ UNCHANGED score_vars

SegIndividuals ==
    /\ seg.pc = "individuals"
    /\ seg' = SegIndividualsStep(seg)
    /\ UNCHANGED score_vars

SegPrune ==
    /\ seg.pc = "prune"
    /\ SegPruneGuard(seg)
    /\ seg' = SegPruneStep(seg)
    /\ UNCHANGED score_vars

SegPruneEnd ==
    /\ seg.pc = "prune"
    /\ ~SegPruneGuard(seg)
    /\ seg' = SegPruneExit(seg)
    /\ UNCHANGED score_vars

SegDone ==
    /\ seg.pc = "threshold"
    /\ seg.ti > Len(seg.confidence_score_thresholds)
    /\ seg' = SegReturn(seg)
    /\ UNCHANGED score_vars

SegNext ==
    \/ SegThreshold
    \/ SegIndividuals
    \/ SegPrune
    \/ SegPruneEnd
    \/ SegDone

SegSpec == SegInit /\ [][SegNext]_vars

(* The same call under fairness: it runs on its own thread of control and   *)
(* is never suspended. A step of the call is possible exactly when it has   *)
(* not returned yet, so weak fairness of SegNext is written with that       *)
(* condition in place of ENABLED <<SegNext>>_vars.                          *)
SegFairness ==
    /\ WF_vars(SegDone)
    /\ []<>(seg.pc = "done") \/ []<><<SegNext>>_vars

SegFairSpec == SegInit /\ [][SegNext]_vars /\ SegFairness

----------------------------------------------------------------------------
(* Single calls of the pure functions: stack_comparison with either value   *)
(* of its check_unary_union argument, and the three ratios of Metric        *)

MaxCount == 3

Counts == 0 .. MaxCount

(* truth stacks observed on two dates, over all or part of the footprint *)
CallTruths ==
    {Truth("g1", "positive", FullWindow, Track(<<a, b>>)) :
        a \in {G1Footprint, {1}}, b \in {G1Footprint, {1}}}

(* proposals observed on two dates or on a single one, anywhere *)
CallProposals ==
    {Candidate(1, QOne, track) :
        track \in {Track(<<a, b>>) : a \in Polygons, b \in Polygons}
                  \cup {<<Obs(d, a)>> : d \in Days, a \in Polygons}}

StackComparisonCalls ==
    {[name |-> "stack_comparison", pc |-> "called", gt_stack |-> gt_stack,
      sm_stack |-> sm_stack, check_unary_union |-> check, result |-> <<>>] :
        gt_stack \in CallTruths, sm_stack \in CallProposals,
        check \in BOOLEAN}

MetricCalls ==
    {[name |-> "metrics", pc |-> "called", tp |-> tp, fp |-> fp, fn |-> fn,
      result |-> <<>>] : tp \in Counts, fp \in Counts, fn \in Counts}

(* truth stacks with one to three observations of any phase, two of them   *)
(* possibly on the same date from different sources, compared with a few    *)
(* proposals                                                                *)
PhasedObs ==
    {[date |-> date, polygon |-> polygon, phase |-> <<phase>>,
      source |-> source] :
        date \in {1, 2}, polygon \in {G1Footprint, {1}},
        phase \in {"No Activity", "Active Construction", "Post Construction"},
        source \in {<<1>>, <<2>>}}

PhasedTruths ==
    {Truth("g1", "positive", FullWindow, SortSlices(observations)) :
        observations \in {o \in SUBSET PhasedObs :
                             /\ Cardinality(o) \in 1 .. 3
                             /\ \A a, b \in o :
                                    a.date = b.date /\ a.source = b.source
                                        => a = b}}

PhasedCalls ==
    {[name |-> "stack_comparison", pc |-> "called", gt_stack |-> gt_stack,
      sm_stack |-> Candidate(1, QOne, track),
      check_unary_union |-> FALSE, result |-> <<>>] :
        gt_stack \in PhasedTruths,
        track \in {Track(<<G1Footprint, {1}>>), <<Obs(2, G1Footprint)>>,
                   Track(<<Cells, Cells>>)}}

(* annotated sites built against a region model that starts on the second   *)
(* day: site-level dates and up to two observations before, inside or       *)
(* after the region's window, a date possibly missing                       *)
RegionModel == [start_date |-> 2, end_date |-> NumDays]

AnnotatedDays == 1 .. NumDays + 1

AnnotatedDates == {NoneVal} \cup {Some(d) : d \in AnnotatedDays}

AnnotatedObs ==
    {[date |-> date, polygon |-> G1Footprint, phase |-> <<phase>>,
      source |-> <<1>>] :
        date \in AnnotatedDays,
        phase \in {"No Activity", "Site Preparation", "Active Construction",
                   "Post Construction"}}

AnnotatedTracks ==
    {SortSlices(observations) :
        observations \in {o \in SUBSET AnnotatedObs :
                             /\ Cardinality(o) <= 2
                             /\ \A a, b \in o : a.date = b.date => a = b}}

SiteStackCalls ==
    {[name |-> "SiteStack", pc |-> "called", status |-> status,
      start_date |-> dates[1], end_date |-> dates[2], slices |-> slices,
      result |-> <<>>] :
        status \in {"positive_annotated", "negative", "system_confirmed"},
        dates \in {d \in AnnotatedDates \X AnnotatedDates :
                      d[1] # NoneVal /\ d[2] # NoneVal => d[1][1] <= d[2][1]},
        slices \in AnnotatedTracks}

(* truth sites as loaded, and the arguments update_gt_statuses is called    *)
(* with during one run: the threshold and the partially contained sites do  *)
(* not change between the calls, the activity type does                     *)
MaxCalls == 3

ActivityTypes == {"overall", "completed", "partial"}

LoadedSites ==
    {[field \in DOMAIN site \cup {"annotated_status", "unbounded",
                                  "partial_type", "annotated_null_start",
                                  "annotated_null_end", "max_polygon_area"} |->
         CASE field = "annotated_status" -> site.status
           [] field = "unbounded" -> extra[1]
           [] field = "partial_type" -> extra[2]
           [] field = "annotated_null_start" -> FALSE
           [] field = "annotated_null_end" -> FALSE
           [] field = "max_polygon_area" -> extra[3]
           [] OTHER -> site[field]] :
        site \in {Truth("g1", status, window,
                        Track(<<G1Footprint, G1Footprint>>)) :
                     status \in {"positive_annotated", "positive_partial",
                                 "transient_positive", "negative"},
                     window \in {FullWindow,
                                 Window(Some(1), Some(NumDays), Some(1),
                                        Some(2), Some(NumDays))}},
        extra \in {0, 1} \X {"A", "B"} \X {1, 2}}

UpdateCalls ==
    {[name |-> "update_gt_statuses", pc |-> "called", loaded |-> site,
      site |-> site, small_site_threshold |-> threshold,
      partially_contained |-> contained, history |-> <<>>] :
        site \in LoadedSites, threshold \in {0, 1}, contained \in BOOLEAN}

(* proposals with one to three observations, two of them possibly on the    *)
(* same date from different sources, asked for their slice of a date        *)
SourcedObs ==
    {[date |-> date, polygon |-> polygon,
      phase |-> <<"Active Construction">>, source |-> source] :
        date \in Days, polygon \in {{1}, {2}}, source \in {<<1>>, <<2>>}}

DistinctIds(observations) ==
    \A a, b \in observations :
        a.date = b.date /\ a.source = b.source => a = b

GetSliceCalls ==
    {[name |-> "get_slice", pc |-> "called",
      stack |-> Candidate(1, QOne, SortSlices(observations)),
      date |-> date, result |-> <<>>] :
        observations \in {o \in SUBSET SourcedObs :
                             /\ Cardinality(o) \in 1 .. 3
                             /\ DistinctIds(o)},
        date \in Days}

(* click.FloatRange(min, max, clamp).convert: a value outside the range is  *)
(* moved to the nearest bound when clamp is set, refused otherwise          *)
FloatRange(min, max, clamp, value) ==
    IF QLess(value, min)
    THEN [ok |-> clamp, value |-> min]
    ELSE IF QLess(max, value)
    THEN [ok |-> clamp, value |-> max]
    ELSE [ok |-> TRUE, value |-> value]

(* a variant of the options that refuses what is out of range: the          *)
(* validation the properties below are contrasted with                      *)
ThresholdOptionStrict(value) == FloatRange(QZero, QOne, FALSE, value)

(* type=click.FloatRange(0, 1, clamp=True), the type of --tau, --rho,       *)
(* --confidence, --temporal_iop and --temporal_iot                          *)
ThresholdOption(value) == FloatRange(QZero, QOne, TRUE, value)

OptionNames == {"tau", "rho", "confidence", "temporal_iop", "temporal_iot"}

GivenValues == {Q(-1, 2), QZero, Q(1, 2), QOne, Q(3, 2)}

GivenTemporal == {Q(-1, 2), Q(1, 5), Q(3, 2)}

(* a command line with one value for each threshold option *)
MainCalls ==
    {[name |-> "main", pc |-> "called",
      given |-> [option \in OptionNames |->
                    CASE option = "tau" -> v[1]
                      [] option = "rho" -> v[2]
                      [] option = "confidence" -> v[3]
                      [] option = "temporal_iop" -> v[4]
                      [] option = "temporal_iot" -> v[5]],
      result |-> <<>>] :
        v \in GivenValues \X GivenValues \X GivenValues
              \X GivenTemporal \X GivenTemporal}

CallInit ==
    /\ call \in StackComparisonCalls \cup MetricCalls \cup MainCalls
                \cup GetSliceCalls \cup PhasedCalls \cup SiteStackCalls
                \cup UpdateCalls
    /\ gt_sites = <<>>
    /\ sm_stacks = <<>>
    /\ stack_comparisons = <<>>
    /\ cfg = DefaultCfg
    /\ pc = "call"
    /\ plan = <<>>
    /\ row_idx = 0
    /\ scoreboard_rows = <<>>
    /\ best_metric_score = Q(-1, 1)
    /\ best = NoBest
    /\ seg = SegIdle
    /\ mp = NoPool

CallStackComparison ==
    /\ call.name = "stack_comparison"
    /\ call.pc = "called"
    /\ call' = [call EXCEPT
                   !.pc = "returned",
                   !.result = StackComparisonCall(call.gt_stack, call.sm_stack,
                                                  call.check_unary_union)]
    /\ UNCHANGED <<gt_sites, sm_stacks, stack_comparisons, cfg, pc, plan,
                   row_idx, scoreboard_rows, best_metric_score, best, seg, mp>>

CallMetrics ==
    /\ call.name = "metrics"
    /\ call.pc = "called"
    /\ call' = [call EXCEPT
                   !.pc = "returned",
                   !.result = [precision |-> calc_precision(call.tp, call.fp),
                               recall |-> calc_recall(call.tp, call.fn),
                               f1 |-> calc_F1(call.tp, call.fp, call.fn)]]
    /\ UNCHANGED <<gt_sites, sm_stacks, stack_comparisons, cfg, pc, plan,
                   row_idx, scoreboard_rows, best_metric_score, best, seg, mp>>

(* the command line is parsed: click converts every option before main is  *)
(* entered; main then builds the Evaluation from the converted values and   *)
(* the run starts, or click ends the process with a usage error             *)
CallMain ==
    /\ call.name = "main"
    /\ call.pc = "called"
    /\ \E parsed \in {[option \in OptionNames |->
                           ThresholdOption(call.given[option])]} :
           IF \A option \in OptionNames : parsed[option].ok
           THEN /\ cfg' = Cfg(<<parsed["tau"].value>>,
                              <<parsed["rho"].value>>,
                              <<parsed["temporal_iop"].value>>,
                              <<parsed["temporal_iot"].value>>,
                              <<Q(1, 10)>>, <<Q(1, 5)>>, <<QZero>>,
                              <<parsed["confidence"].value>>)
                /\ pc' = "compare"
                /\ call' = [call EXCEPT !.pc = "returned", !.result = "run"]
           ELSE /\ cfg' = cfg
                /\ pc' = "rejected"
                /\ call' = [call EXCEPT !.pc = "returned",
                                        !.result = "usage error"]
    /\ UNCHANGED <<gt_sites, sm_stacks, stack_comparisons, plan, row_idx,
                   scoreboard_rows, best_metric_score, best, seg, mp>>

CallGetSlice ==
    /\ call.name = "get_slice"
    /\ call.pc = "called"
    /\ call' = [call EXCEPT
                   !.pc = "returned",
                   !.result = get_slice(call.stack, call.date)]
    /\ UNCHANGED <<gt_sites, sm_stacks, stack_comparisons, cfg, pc, plan,
                   row_idx, scoreboard_rows, best_metric_score, best, seg, mp>>

CallSiteStack ==
    /\ call.name = "SiteStack"
    /\ call.pc = "called"
    /\ call' = [call EXCEPT
                   !.pc = "returned",
                   !.result = SiteStackInRegion("g1", call.status, QOne,
                                  call.slices, call.start_date, call.end_date,
                                  RegionModel)]
    /\ UNCHANGED <<gt_sites, sm_stacks, stack_comparisons, cfg, pc, plan,
                   row_idx, scoreboard_rows, best_metric_score, best, seg, mp>>

(* main calls update_gt_statuses once for each activity type of the run *)
CallUpdateGtStatuses(activity_type) ==
    /\ call.name = "update_gt_statuses"
    /\ Len(call.history) < MaxCalls
    /\ call' = [call EXCEPT
                   !.site = update_gt_statuses(call.site, activity_type,
                                call.small_site_threshold,
                                call.partially_contained),
                   !.history = Append(@, activity_type)]
    /\ UNCHANGED <<gt_sites, sm_stacks, stack_comparisons, cfg, pc, plan,
                   row_idx, scoreboard_rows, best_metric_score, best, seg, mp>>

CallNext ==
    \/ CallStackComparison
    \/ CallMetrics
    \/ CallMain
    \/ CallGetSlice
    \/ CallSiteStack
    \/ \E activity_type \in ActivityTypes :
           CallUpdateGtStatuses(activity_type)

CallSpec == CallInit /\ [][CallNext]_vars

----------------------------------------------------------------------------
(* Properties of the scoreboard rows *)

Rows == Range(scoreboard_rows)

(* the pairs a row has recorded for a truth site, detected or not *)
RecordedPairs(row, gt_id) ==
    row.detections[gt_id]
    \cup {p \in row.failed_associations : p.gt_id = gt_id}

TransientStatuses ==
    {"transient_positive", "transient_pending", "transient_negative",
     "transient_excluded", "transient_ignore"}

IgnoreStatuses == {"ignore", "positive_unbounded", "transient_ignore"}

(* the rule as the specification words it *)
DetectionRule(p, status, thr) ==
    LET tiop_threshold == IF status \in TransientStatuses
                          THEN thr.transient_temporal_iop
                          ELSE thr.temporal_iop
        tiot_threshold == IF status \in TransientStatuses
                          THEN thr.transient_temporal_iot
                          ELSE thr.temporal_iot
    IN  /\ QGeq(p.spatial_overlap, thr.rho)
        /\ QGeq(p.tiop, tiop_threshold)
        /\ (status \notin IgnoreStatuses => QGeq(p.tiot, tiot_threshold))

(* C1: in every row, a scored truth/proposal pair is recorded as detected   *)
(* if and only if its spatial overlap reaches rho, its temporal IoP reaches *)
(* the temporal IoP threshold and, unless the truth status is an ignore     *)
(* type, its temporal IoT reaches the temporal IoT threshold, the transient *)
(* thresholds being the ones used exactly for the transient statuses.       *)
C1_DetectionRule ==
    \A row \in Rows : \A gt_id \in GtIds :
        \A p \in RecordedPairs(row, gt_id) :
            (p \in row.detections[gt_id])
                <=> DetectionRule(p, gt_sites[gt_id].status, row.thr)

(* a transient truth site detected although its temporal IoP is below the   *)
(* threshold of the non-transient sites, next to a row in which a pair has  *)
(* failed                                                                   *)
C1_Witness ==
    /\ \E row \in Rows : \E p \in row.detections["g1"] :
           /\ gt_sites["g1"].status \in TransientStatuses
           /\ QLess(p.tiop, row.thr.temporal_iop)
    /\ \E row \in Rows : row.failed_associations # {}

(* the proposal a row has matched with a truth site: <<>> when none *)
MatchOf(row, gt_id) ==
    LET hits == SelectSeq(row.matched_pairs, LAMBDA pair : pair[1] = gt_id)
    IN  IF hits # <<>> THEN hits[1][2] ELSE <<>>

Members(sm_id) == Len(sm_stacks[sm_id].sites)

(* m is preferred to d by member count, then by spatial overlap; id_first   *)
(* tells whether m's id wins a remaining tie                                *)
Preferred(m, d, id_first) ==
    \/ Members(m.sm_id) > Members(d.sm_id)
    \/ /\ Members(m.sm_id) = Members(d.sm_id)
       /\ \/ QLess(d.spatial_overlap, m.spatial_overlap)
          \/ QEq(d.spatial_overlap, m.spatial_overlap) /\ id_first

(* C2: among the proposals that detect a truth site in a row, the match is  *)
(* the one with the most member sites, then the highest spatial overlap,    *)
(* and on a remaining tie the one with the lexicographically largest id.    *)
C2_BestMatchLargestId ==
    \A row \in Rows : \A gt_id \in GtIds :
        IF row.detections[gt_id] = {}
        THEN MatchOf(row, gt_id) = <<>>
        ELSE \E m \in row.detections[gt_id] :
                /\ m.sm_id = MatchOf(row, gt_id)
                /\ \A d \in row.detections[gt_id] \ {m} :
                       Preferred(m, d, StrLess(d.sm_id, m.sm_id))

(* C2 as worded: a remaining tie goes to the lexicographically smallest id  *)
C2_BestMatchSmallestId ==
    \A row \in Rows : \A gt_id \in GtIds :
        row.detections[gt_id] # {} =>
            \E m \in row.detections[gt_id] :
                /\ m.sm_id = MatchOf(row, gt_id)
                /\ \A d \in row.detections[gt_id] \ {m} :
                       Preferred(m, d, StrLess(m.sm_id, d.sm_id))

(* two proposals with as many members and the same spatial overlap detect   *)
(* one truth site, and one of them is its match                             *)
C2_Witness ==
    \E row \in Rows : \E gt_id \in GtIds :
        \E m \in row.detections[gt_id] : \E d \in row.detections[gt_id] :
            /\ m.sm_id # d.sm_id
            /\ m.sm_id = MatchOf(row, gt_id)
            /\ Members(m.sm_id) = Members(d.sm_id)
            /\ QEq(m.spatial_overlap, d.spatial_overlap)

Detects(row, gt_id) == row.detections[gt_id] # {}

PositiveSites == {gt_id \in GtIds : gt_sites[gt_id].status \in POSITIVE_STATUS_TYPES}

NegativeSites == {gt_id \in GtIds : gt_sites[gt_id].status \in NEGATIVE_STATUS_TYPES}

(* C3: in every row each positive truth site is counted once, as tp when    *)
(* some retained proposal detects it and as fn otherwise, each negative     *)
(* truth site once, as fp when detected (next to the false alarms) and as   *)
(* tn otherwise; so tp + fn is the number of positive truth sites.          *)
C3_TruthCountedOnce ==
    \A row \in Rows :
        /\ row.tp = Cardinality({g \in PositiveSites : Detects(row, g)})
        /\ row.fn = Cardinality({g \in PositiveSites : ~Detects(row, g)})
        /\ row.fp - Cardinality(row.false_alarms)
               = Cardinality({g \in NegativeSites : Detects(row, g)})
        /\ row.tn = Cardinality({g \in NegativeSites : ~Detects(row, g)})
        /\ row.tp + row.fn = Cardinality(PositiveSites)
        /\ row.truth_sites = Cardinality(PositiveSites)
        /\ \A g \in PositiveSites :
               row.gt_status[g] = IF Detects(row, g) THEN "tp" ELSE "fn"
        /\ \A g \in NegativeSites :
               row.gt_status[g] = IF Detects(row, g) THEN "fp" ELSE "tn"

(* a row with a positive site detected and a negative site detected, and    *)
(* another row of the sweep in which the positive site is missed            *)
C3_Witness ==
    /\ \E row \in Rows :
           /\ row.tp = 1
           /\ \E g \in NegativeSites : Detects(row, g)
    /\ \E row \in Rows : row.fn = 1

(* the member sites of the proposals a row has matched with truth sites *)
MatchedMembers(row) ==
    UNION {Range(sm_stacks[row.matched_pairs[i][2]].sites) :
              i \in DOMAIN row.matched_pairs}

(* C4: in every row the false alarms are exactly the retained single        *)
(* proposals that are no member of any truth site's match; each is          *)
(* classified fp and adds one to the fp count, and no member of a match is  *)
(* a false alarm.                                                           *)
C4_FalseAlarms ==
    \A row \in Rows :
        /\ row.false_alarms =
               {sm_id \in row.keep :
                   Members(sm_id) = 1 /\ sm_id \notin MatchedMembers(row)}
        /\ row.false_alarms \cap MatchedMembers(row) = {}
        /\ \A sm_id \in row.false_alarms : row.sm_status[sm_id] = "fp"
        /\ row.fp = Cardinality(row.false_alarms)
                    + Cardinality({i \in DOMAIN row.matched_pairs :
                          row.matched_pairs[i][1] \in NegativeSites})

(* a row with a false alarm next to a matched proposal and a retained,      *)
(* unmatched union of two proposals                                         *)
C4_Witness ==
    \E row \in Rows :
        /\ row.false_alarms # {}
        /\ row.matched_pairs # <<>>
        /\ \E sm_id \in row.keep :
               /\ Members(sm_id) = 2
               /\ \A gt_id \in GtIds : MatchOf(row, gt_id) # sm_id

UncountedStatuses == {"ignore", "positive_unbounded"}

(* C5: in every row a truth site whose status is "ignore" or                *)
(* "positive_unbounded" is scored "0" and is in none of the tp, fp, fn and  *)
(* tn counts, detected or missed: the four counts of truth sites add up to  *)
(* no more than the number of other truth sites.                            *)
C5_IgnoreNeverCounted ==
    \A row \in Rows :
        /\ \A g \in GtIds :
               gt_sites[g].status \in UncountedStatuses
                   => row.gt_status[g] = "0"
        /\ row.tp + row.fn + row.tn
               + (row.fp - Cardinality(row.false_alarms))
               <= Cardinality({g \in GtIds :
                      gt_sites[g].status \notin UncountedStatuses})

(* an "ignore" or unbounded site detected in one row and missed in another  *)
C5_Witness ==
    /\ \E row \in Rows : \E g \in GtIds :
           gt_sites[g].status \in UncountedStatuses /\ Detects(row, g)
    /\ \E row \in Rows : \E g \in GtIds :
           gt_sites[g].status \in UncountedStatuses /\ ~Detects(row, g)

(* C6: when associate_sites has finished a sweep, best_metric_score is the  *)
(* maximum F1 over the rows of the sweep, and the persisted matched pairs,  *)
(* detections, proposals and best thresholds are those of one row that      *)
(* achieves it.                                                             *)
C6_BestRowPersisted ==
    pc = "done" =>
        /\ \A row \in Rows : QGeq(best_metric_score, row.f1)
        /\ \E row \in Rows :
               /\ QEq(row.f1, best_metric_score)
               /\ best.matched_pairs = row.matched_pairs
               /\ best.detections = row.detections
               /\ best.proposals = row.proposals
               /\ best.thr = row.thr

(* a finished sweep whose last row scores below an earlier one *)
C6_Witness ==
    /\ pc = "done"
    /\ Len(scoreboard_rows) >= 2
    /\ QLess(scoreboard_rows[Len(scoreboard_rows)].f1, best_metric_score)
    /\ best.matched_pairs # <<>>

(* two rows that differ in rho only, the first with the smaller rho *)
RhoOrdered(r1, r2) ==
    /\ QGeq(r2.thr.rho, r1.thr.rho)
    /\ [r1.thr EXCEPT !.rho = r2.thr.rho] = r2.thr

(* C10: between two rows with the same tables, statuses and thresholds but  *)
(* rho1 <= rho2, every truth site detected at rho2 is detected at rho1, and *)
(* tp and recall at rho2 are no larger than at rho1.                        *)
C10_RhoMonotone ==
    \A r1 \in Rows : \A r2 \in Rows :
        RhoOrdered(r1, r2) =>
            /\ \A gt_id \in GtIds : Detects(r2, gt_id) => Detects(r1, gt_id)
            /\ r2.tp <= r1.tp
            /\ QGeq(r1.recall, r2.recall)

(* a proposal that matches 7 of the 10 truth dates: detected at rho 0.1 and *)
(* 0.5, missed at rho 0.9, with a lower recall in that row                  *)
C10_Witness ==
    \E r1 \in Rows : \E r2 \in Rows : \E r3 \in Rows :
        /\ RhoOrdered(r1, r2) /\ RhoOrdered(r2, r3)
        /\ r1.thr.rho = Q(1, 10) /\ r2.thr.rho = Q(1, 2)
        /\ r3.thr.rho = Q(9, 10)
        /\ \E p \in r1.detections["g1"] : p.spatial_overlap = Q(7, 10)
        /\ \E p \in r2.detections["g1"] : p.spatial_overlap = Q(7, 10)
        /\ ~Detects(r3, "g1")
        /\ \E p \in r3.failed_associations : p.spatial_overlap = Q(7, 10)
        /\ QLess(r3.recall, r2.recall)

----------------------------------------------------------------------------
(* Properties of one segment_sites call *)

(* the candidates that survive the i-th confidence threshold *)
SurvivorsAt(i) ==
    SelectSeq(seg.all_sm_stacks, LAMBDA st :
        QGeq(st.score, seg.confidence_score_thresholds[i]))

(* the iteration of the i-th confidence threshold has begun *)
Started(i) ==
    \/ i < seg.ti
    \/ i = seg.ti /\ seg.pc \in {"individuals", "prune"}

ComparedAt(i) ==
    {seg.compared[k].id : k \in {j \in DOMAIN seg.compared :
                                    seg.compared[j].ti = i}}

RemovedAt(i) == {k \in DOMAIN seg.removed : seg.removed[k].ti = i}

OwnScore(st) == DetectionScore(stack_comparison(seg.gt_stack, st), seg.tau)

FullUnion(i) == combine_stacks(seg.gt_stack, SurvivorsAt(i))

(* the results added in iteration i are the full union with its table *)
OnlyFullUnionAdded(i) ==
    /\ ComparedAt(i) \subseteq {get_sm_stack_id(SurvivorsAt(i))}
    /\ \A k \in DOMAIN seg.results :
           seg.compared[k].ti = i =>
               /\ seg.results[k].stack = FullUnion(i)
               /\ seg.results[k].df =
                      stack_comparison(seg.gt_stack, FullUnion(i))

(* C7: for a confidence threshold at which two or more candidates survive   *)
(* and the union of all of them has detection score >= rho, nothing is      *)
(* pruned: no candidate is removed, no individual candidate and no smaller  *)
(* union is compared, and the only result added is the full union with its  *)
(* table.                                                                   *)
C7_NoPruningWhenUnionPasses ==
    \A i \in DOMAIN seg.confidence_score_thresholds :
        (/\ Started(i)
         /\ Len(SurvivorsAt(i)) >= 2
         /\ QGeq(OwnScore(FullUnion(i)), seg.rho))
        => /\ RemovedAt(i) = {}
           /\ OnlyFullUnionAdded(i)

(* a finished call in which three candidates survive, none of them reaches  *)
(* rho alone, and their union does and is the one comparison made           *)
C7_Witness ==
    /\ seg.pc = "done"
    /\ \E i \in DOMAIN seg.confidence_score_thresholds :
           /\ Len(SurvivorsAt(i)) = MaxCandidates
           /\ \A st \in Range(SurvivorsAt(i)) : QLess(OwnScore(st), seg.rho)
           /\ QGeq(OwnScore(FullUnion(i)), seg.rho)
           /\ ComparedAt(i) = {get_sm_stack_id(SurvivorsAt(i))}

(* the detection score of a candidate compared on its own *)
IndividualScore(id) == DetectionScore(seg.proposal_cache[id], seg.tau)

RemovedBefore(a, b) ==
    \/ QLess(IndividualScore(a), IndividualScore(b))
    \/ QEq(IndividualScore(a), IndividualScore(b)) /\ StrLeq(a, b)

(* C8: every candidate taken out of the union is the one with the lowest    *)
(* individual detection score among those still in the union, the smallest *)
(* id among equal scores, and the next union is the previous one without it.*)
C8_PruningOrder ==
    \A k \in DOMAIN seg.removed :
        /\ seg.removed[k].id \in seg.removed[k].union
        /\ \A other \in seg.removed[k].union :
               RemovedBefore(seg.removed[k].id, other)
        /\ (k > 1 /\ seg.removed[k - 1].ti = seg.removed[k].ti) =>
               seg.removed[k].union =
                   seg.removed[k - 1].union \ {seg.removed[k - 1].id}

(* three candidates removed one after the other in one iteration: the first *)
(* has the lowest score and not the smallest id, the next two have equal    *)
(* scores and go in ascending id order                                      *)
C8_Witness ==
    /\ Len(seg.removed) >= 3
    /\ seg.removed[1].ti = seg.removed[3].ti
    /\ \E other \in seg.removed[1].union :
           /\ StrLess(other, seg.removed[1].id)
           /\ QLess(IndividualScore(seg.removed[1].id), IndividualScore(other))
    /\ QEq(IndividualScore(seg.removed[2].id),
           IndividualScore(seg.removed[3].id))
    /\ StrLess(seg.removed[2].id, seg.removed[3].id)

(* the truth dates on which a candidate compared on its own matches *)
MatchedDates(st) ==
    {r.date : r \in {q \in Range(stack_comparison(seg.gt_stack, st)) :
                        QGeq(q.iou, seg.tau)}}

(* two candidates that cover parts of the truth polygon, each matching one  *)
(* of the two truth dates and not the other one, so that each has detection *)
(* score 1/2 on its own                                                     *)
HalfAndHalf(i) ==
    /\ Len(stack_comparison(seg.gt_stack, seg.gt_stack)) = 2
    /\ Len(SurvivorsAt(i)) = 2
    /\ \A st \in Range(SurvivorsAt(i)) :
           st.polygon_union \subseteq seg.gt_stack.polygon_union
    /\ \A st \in Range(SurvivorsAt(i)) : QEq(OwnScore(st), Q(1, 2))
    /\ MatchedDates(SurvivorsAt(i)[1]) # MatchedDates(SurvivorsAt(i)[2])

----------------------------------------------------------------------------
(* Properties of truth sites without a candidate *)

(* compare_stacks found no proposal to compare the truth site with *)
NoCandidate(gt_id) == DOMAIN stack_comparisons[gt_id] = {}

(* C11: a truth site without any candidate proposal is scored in every row: *)
(* its detections are empty, a positive site gets the association status    *)
(* "fn", and no failed association names it.                                *)
C11_NoCandidateIsMissed ==
    \A row \in Rows : \A gt_id \in GtIds :
        NoCandidate(gt_id) =>
            /\ row.detections[gt_id] = {}
            /\ gt_sites[gt_id].status \in POSITIVE_STATUS_TYPES =>
                   row.gt_status[gt_id] = "fn" /\ row.fn >= 1
            /\ \A p \in row.failed_associations : p.gt_id # gt_id

(* a finished sweep in which the only proposal on the footprint of the     *)
(* positive truth site lies outside its dates, and the site is missed in    *)
(* every row                                                                *)
C11_Witness ==
    /\ pc = "done"
    /\ Len(scoreboard_rows) >= 2
    /\ gt_sites["g1"].status \in POSITIVE_STATUS_TYPES
    /\ NoCandidate("g1")
    /\ \A row \in Rows : row.gt_status["g1"] = "fn"
    /\ P1 \in DOMAIN sm_stacks
    /\ gt_sites["g1"].polygon_union \cap sm_stacks[P1].polygon_union # {}

----------------------------------------------------------------------------
(* Properties of the failed associations *)

(* the comparison table of the pair has a row with a nonzero overlap *)
HasOverlap(gt_id, sm_id) ==
    \E r \in Range(stack_comparisons[gt_id][sm_id]) : r.iou[1] > 0

(* the compared pairs of a row whose proposal passes the filters *)
RetainedPairs(row) ==
    {pair \in GtIds \X DOMAIN sm_stacks :
        /\ pair[2] \in DOMAIN stack_comparisons[pair[1]]
        /\ pair[2] \in row.keep
        /\ HasOverlap(pair[1], pair[2])}

IsDetection(row, pair) ==
    \E p \in row.detections[pair[1]] : p.sm_id = pair[2]

IsFailedAssociation(row, pair) ==
    \E p \in row.failed_associations :
        p.gt_id = pair[1] /\ p.sm_id = pair[2]

(* both sites of the pair have some temporal duration *)
HasDuration(pair) ==
    /\ Truthy(gt_sites[pair[1]].len_activity)
    /\ Truthy(sm_stacks[pair[2]].len_activity)

----------------------------------------------------------------------------
(* stack_comparison on stacks that cannot overlap *)

Compared == call.name = "stack_comparison" /\ call.pc = "returned"

DisjointUnions ==
    call.gt_stack.polygon_union \cap call.sm_stack.polygon_union = {}

ZeroTable(df) ==
    \A i \in DOMAIN df :
        QEq(df[i].iou, QZero) /\ QEq(df[i].iot, QZero) /\ QEq(df[i].iop, QZero)

(* C13: when the unions of a truth stack and of a proposal stack do not     *)
(* intersect, stack_comparison returns a table whose iou, iot and iop are   *)
(* zero in every row, and makes no per-date overlap computation.            *)
C13_DisjointSkipsComparison ==
    (Compared /\ DisjointUnions) =>
        /\ ~call.result.raised
        /\ ZeroTable(call.result.df)
        /\ call.result.calc_iou_calls = 0

----------------------------------------------------------------------------
(* The ratios of Metric at the edges of their domain *)

Measured == call.name = "metrics" /\ call.pc = "returned"

AllThree(result, value) ==
    /\ QEq(result.precision, value)
    /\ QEq(result.recall, value)
    /\ QEq(result.f1, value)

(* C14: calc_precision, calc_recall and calc_F1 return 0 whenever tp is 0,  *)
(* whatever fp and fn are, and exactly 1 whenever tp is positive and fp and *)
(* fn are both 0.                                                           *)
C14_RatiosAtTheEdges ==
    Measured =>
        /\ call.tp = 0 => AllThree(call.result, QZero)
        /\ (call.tp > 0 /\ call.fp = 0 /\ call.fn = 0) =>
               AllThree(call.result, QOne)

C14_Witness ==
    /\ Measured
    /\ call.tp = MaxCount /\ call.fp = 0 /\ call.fn = 0
    /\ AllThree(call.result, QOne)


----------------------------------------------------------------------------
(* build_scoreboard called twice in a row *)

Repeated == call.name = "build_scoreboard"

(* the k-th row of the first call and of the second call *)
FirstCallRow(k) == scoreboard_rows[call.first + k - 1]

SecondCallRow(k) == scoreboard_rows[call.first + call.rows + k - 1]

SecondCallRows ==
    IF Repeated
    THEN {k \in 1 .. call.rows :
             call.first + call.rows + k - 1 <= Len(scoreboard_rows)}
    ELSE {}

(* C15: calling build_scoreboard twice in a row with the same thresholds,   *)
(* on unchanged comparison tables and truth statuses, returns identical     *)
(* rows: the association fields and the best-score record left by the first *)
(* call change no row of the second call.                                   *)
C15_SecondCallSameRows ==
    \A k \in SecondCallRows : SecondCallRow(k) = FirstCallRow(k)

(* a second call has returned all its rows, the first call having changed   *)
(* the association fields of a site and the best-score record               *)
C15_Witness ==
    /\ Repeated
    /\ call.rows >= 2
    /\ SecondCallRows = 1 .. call.rows
    /\ \E k \in SecondCallRows : FirstCallRow(k).tp >= 1
    /\ \E k \in SecondCallRows : FirstCallRow(k).fp >= 1
    /\ \E j, k \in SecondCallRows : FirstCallRow(j).f1 # FirstCallRow(k).f1


----------------------------------------------------------------------------
(* The parallel path of compare_stacks *)

Dispatched == {gt_id \in GtIds : mp.tasks[gt_id] # "none"}

(* C16: every truth site dispatched to the pool has its comparison tables   *)
(* merged into stack_comparisons when compare_stacks returns (the run has   *)
(* no other way on to scoring): a failed worker task never leaves a truth   *)
(* site without its comparisons while the run continues.                    *)
C16_DispatchedIsMerged ==
    pc = "associate" => \A gt_id \in Dispatched : gt_id \in mp.merged

(* C17: stack_comparisons is written only by the collecting loop of the     *)
(* main thread, after the pool has been joined: neither a worker nor the    *)
(* callback writes it, so it has no concurrent writers.                     *)
C17_SingleWriter ==
    [][stack_comparisons' # stack_comparisons => pc = "collect" /\ PoolDone]_vars

C17_Witness ==
    /\ pc = "collect"
    /\ mp.merged # {}
    /\ mp.counter # 0
    /\ \E gt_id \in mp.merged : DOMAIN stack_comparisons[gt_id] # {}


----------------------------------------------------------------------------
(* Thresholds given on the command line *)

Parsed == call.name = "main" /\ call.pc = "returned"

InUnitRange(value) == QGeq(value, QZero) /\ QGeq(QOne, value)

OutOfRange ==
    {option \in OptionNames : ~InUnitRange(call.given[option])}

(* the value of an option the Evaluation was built with *)
Used(option) ==
    CASE option = "tau" -> cfg.taus[1]
      [] option = "rho" -> cfg.rhos[1]
      [] option = "confidence" -> cfg.confidence_score_thresholds[1]
      [] option = "temporal_iop" -> cfg.temporal_iops[1]
      [] option = "temporal_iot" -> cfg.temporal_iots[1]

Nearest(value) ==
    IF QLess(value, QZero) THEN QZero
    ELSE IF QLess(QOne, value) THEN QOne ELSE value

----------------------------------------------------------------------------
(* The end of the pruning loop *)

(* the removals that follow the evaluation of a pruned union: all those of  *)
(* an iteration but its first, which drops the worst candidate of the full  *)
(* union                                                                    *)
PrunedAt(i) == {k \in RemovedAt(i) : k - 1 \in RemovedAt(i)}

(* the detection score of the pruned union evaluated before removal k *)
UnionScore(k) ==
    DetectionScore(seg.proposal_cache[JoinIds(SortedIds(seg.removed[k].union))],
                   seg.tau)

(* C19: the pruning loop ends for a confidence threshold as soon as a       *)
(* pruned union clears rho, by the test used for the full union (detection  *)
(* score >= rho), or when no candidate remains: after a pruned union has    *)
(* cleared rho, no further candidate is removed and no further union is     *)
(* evaluated for that threshold.                                            *)
C19_PruningStopsAtRho ==
    \A i \in DOMAIN seg.confidence_score_thresholds :
        \A j \in PrunedAt(i) : \A k \in PrunedAt(i) :
            j < k => QLess(UnionScore(j), seg.rho)


----------------------------------------------------------------------------
(* The comparisons of one confidence threshold *)

SurvivorIds(i) == {st.id : st \in Range(SurvivorsAt(i))}

(* what is left of the survivors after removing candidates one at a time    *)
(* in the sorted order: every candidate left out goes before every          *)
(* candidate kept                                                           *)
NestedUnion(i, kept) ==
    \A a \in kept : \A b \in SurvivorIds(i) \ kept : RemovedBefore(b, a)

ComparedAsPlanned(i, id) ==
    \/ id \in SurvivorIds(i)
    \/ \E kept \in SUBSET SurvivorIds(i) \ {{}} :
           id = JoinIds(SortedIds(kept)) /\ NestedUnion(i, kept)

NestedOnly ==
    \A i \in DOMAIN seg.confidence_score_thresholds :
        (Started(i) /\ Len(SurvivorsAt(i)) >= 2) =>
            /\ \A id \in ComparedAt(i) : ComparedAsPlanned(i, id)
            /\ Cardinality(ComparedAt(i)) <= 2 * Len(SurvivorsAt(i)) - 1
            /\ Cardinality(RemovedAt(i)) <= Len(SurvivorsAt(i))

(* C20: with n >= 2 candidates surviving a confidence threshold, the only   *)
(* proposals compared with the truth are the full union, the n candidates   *)
(* on their own and the nested unions left by removing candidates one at a  *)
(* time in the sorted order; at most 2n - 1 distinct comparisons are made   *)
(* for the threshold, and the call terminates.                              *)
C20_NestedUnionsThenDone == []NestedOnly /\ <>(seg.pc = "done")

(* a finished call in which the largest number of candidates survive a      *)
(* threshold and all 2n - 1 comparisons were made for it                    *)
C20_Witness ==
    /\ seg.pc = "done"
    /\ \E i \in DOMAIN seg.confidence_score_thresholds :
           /\ Len(SurvivorsAt(i)) = MaxCandidates
           /\ Cardinality(ComparedAt(i)) = 2 * MaxCandidates - 1
           /\ Cardinality(RemovedAt(i)) = MaxCandidates


----------------------------------------------------------------------------
(* The returned lists of one segment_sites call *)

ResultIds == {seg.results[k].stack.id : k \in DOMAIN seg.results}

(* the ids looked up so far: the single survivor or the full union of every *)
(* threshold begun, the survivors of a threshold that went on to pruning,   *)
(* and the pruned unions evaluated                                          *)
ConsideredIds ==
    {StackId(SurvivorsAt(i)) :
        i \in {j \in DOMAIN seg.confidence_score_thresholds :
                  Started(j) /\ Len(SurvivorsAt(j)) >= 1}}
    \cup UNION {SurvivorIds(i) :
            i \in {j \in DOMAIN seg.confidence_score_thresholds :
                      RemovedAt(j) # {}}}
    \cup UNION {{JoinIds(SortedIds(seg.removed[k].union)) : k \in PrunedAt(i)} :
            i \in DOMAIN seg.confidence_score_thresholds}

(* C21: within one segment_sites call every proposal or union considered at *)
(* any confidence threshold is compared with the truth exactly once and     *)
(* returned exactly once: one table per returned proposal, the table being  *)
(* the comparison of the truth with that proposal, and no id twice.         *)
C21_ComparedAndReturnedOnce ==
    /\ Len(seg.compared) = Len(seg.results)
    /\ \A k \in DOMAIN seg.results :
           /\ seg.compared[k].id = seg.results[k].stack.id
           /\ seg.results[k].df =
                  stack_comparison(seg.gt_stack, seg.results[k].stack)
           /\ \A j \in DOMAIN seg.results :
                  seg.results[j].stack.id = seg.results[k].stack.id => j = k
    /\ ConsideredIds = ResultIds
    /\ DOMAIN seg.proposal_cache = ResultIds

(* a finished call with two confidence thresholds: the union of the         *)
(* survivors of the second one was already compared as a pruned union of    *)
(* the first one, and is returned once                                      *)
C21_Witness ==
    /\ seg.pc = "done"
    /\ Len(seg.confidence_score_thresholds) = 2
    /\ Len(SurvivorsAt(2)) = 2
    /\ Len(SurvivorsAt(1)) = MaxCandidates
    /\ StackId(SurvivorsAt(2)) \in ComparedAt(1)
    /\ RemovedAt(2) # {}


----------------------------------------------------------------------------
(* The tables compare_stacks stores against the unions a scored (tau, rho)  *)
(* would reach                                                              *)

(* what compare_stacks stores for the truth site of the call: the results   *)
(* of segment_sites run with tau = 1 and rho = 1                            *)
StoredResults ==
    segment_sites(seg.gt_stack, seg.all_sm_stacks, QOne, QOne,
                  seg.confidence_score_thresholds)

StoredIn(stored, result) ==
    \E k \in DOMAIN stored :
        stored[k].stack.id = result.stack.id /\ stored[k].df = result.df

(* the proposals and unions the finished run has reached that clear rho *)
Clearing ==
    {result \in Range(seg.results) :
        QGeq(DetectionScore(result.df, seg.tau), seg.rho)}

FullOrSingle(result) ==
    \/ Len(result.stack.sites) = 1
    \/ \E i \in DOMAIN seg.confidence_score_thresholds :
           result.stack.id = StackId(SurvivorsAt(i))

(* C22: every union of the candidates (or single candidate) that the greedy *)
(* segmentation run with the scored tau and rho reaches and that clears rho *)
(* has its comparison table among the tables compare_stacks stored.         *)
C22_ReachedUnionStored ==
    seg.pc = "done" =>
        \E stored \in {StoredResults} :
            \A result \in Clearing : StoredIn(stored, result)

(* the full union of the candidates surviving a confidence threshold and a  *)
(* single candidate are always stored; a smaller union of several           *)
(* candidates is stored only when the pruning order at tau = 1 leads to it  *)
FullOrSingleStored ==
    seg.pc = "done" =>
        \E stored \in {StoredResults} :
            \A result \in Clearing :
                FullOrSingle(result) => StoredIn(stored, result)


----------------------------------------------------------------------------
(* The observations of a combined Track *)

(* the unions of several candidates that the run has built and compared *)
CombinedResults == {result \in Range(seg.results) : Len(result.stack.sites) > 1}

Member(id) == CHOOSE st \in Range(seg.all_sm_stacks) : st.id = id

MembersOf(stack) == [i \in DOMAIN stack.sites |-> Member(stack.sites[i])]

(* the observations of the members, each with the position of its member *)
MemberObservations(stack) ==
    UNION {{<<i, sl>> : sl \in Range(Member(stack.sites[i]).slices)} :
              i \in DOMAIN stack.sites}

(* the observations that the members have on the date itself *)
ObservedOn(stack, date) ==
    {c \in MemberObservations(stack) : c[2].date = date}

(* the observations that the members have on the date or, when a member has *)
(* none on the date, its most recent one before the date                    *)
LatestOnOrBefore(stack, date) ==
    {c \in MemberObservations(stack) :
        /\ c[2].date <= date
        /\ \A other \in MemberObservations(stack) :
               other[1] = c[1] /\ other[2].date <= date
                   => other[2].date <= c[2].date}

(* a combined observation made of the given observations of the members:    *)
(* the union of their polygons, one phase and one source label for each     *)
MadeOf(slice, contributions) ==
    /\ contributions # {}
    /\ slice.polygon = UNION {c[2].polygon : c \in contributions}
    /\ Len(slice.phase) = Cardinality(contributions)
    /\ Len(slice.source) = 2 * Cardinality(contributions) - 1

(* C23: on each date of a combined Track the observation is the union of    *)
(* the polygons of exactly the members that have an observation on that     *)
(* date, with their phase and source labels concatenated; a member without  *)
(* an observation on that date contributes nothing.                         *)
C23_OnlyMembersObservedThatDay ==
    \A result \in CombinedResults :
        \A slice \in Range(result.stack.slices) :
            MadeOf(slice, ObservedOn(result.stack, slice.date))

(* C23, amended: on each date of a combined Track the observation is the    *)
(* union of the polygons of each member's most recent observation on or     *)
(* before that date, with their phase and source labels concatenated; the   *)
(* dates are the dates of the truth site and of the members on which some   *)
(* member has such an observation; a member contributes nothing only to the *)
(* dates before its first observation.                                      *)
C23_MostRecentOfEachMember ==
    \A result \in CombinedResults :
        /\ \A slice \in Range(result.stack.slices) :
               MadeOf(slice, LatestOnOrBefore(result.stack, slice.date))
        /\ {slice.date : slice \in Range(result.stack.slices)}
               = {date \in ObservationDates(seg.gt_stack, MembersOf(result.stack)) :
                     LatestOnOrBefore(result.stack, date) # {}}
        /\ \A j, k \in DOMAIN result.stack.slices :
               result.stack.slices[j].date = result.stack.slices[k].date => j = k

(* a union of a candidate observed on the first date only and a candidate   *)
(* observed on the second date only: the observation of the second date     *)
(* holds the polygons of both                                               *)
C23_Witness ==
    \E result \in CombinedResults :
        \E slice \in Range(result.stack.slices) :
            /\ Cardinality(ObservedOn(result.stack, slice.date)) = 1
            /\ Cardinality(LatestOnOrBefore(result.stack, slice.date)) = 2
            /\ slice.polygon = G1Footprint
            /\ \A c \in LatestOnOrBefore(result.stack, slice.date) :
                   c[2].polygon # G1Footprint


----------------------------------------------------------------------------
(* The observation get_slice returns *)

GotSlice == call.name = "get_slice" /\ call.pc = "returned"

NotNewer == {sl \in Range(call.stack.slices) : sl.date <= call.date}

(* C24: get_slice(date) returns the observation with the latest date on or  *)
(* before the given date, of several on that latest date the one with the   *)
(* greatest id; it returns None when every observation is later than the    *)
(* given date, and never an observation dated after the given date.         *)
C24_LatestNotNewer ==
    GotSlice =>
        /\ call.result = <<>> <=> NotNewer = {}
        /\ call.result # <<>> =>
               /\ call.result[1] \in NotNewer
               /\ \A sl \in NotNewer :
                      \/ sl.date < call.result[1].date
                      \/ /\ sl.date = call.result[1].date
                         /\ StrLeq(sl.source, call.result[1].source)

(* two observations on the latest date that is not newer, an older one      *)
(* before them: the one of the two with the greater id is returned          *)
C24_Witness ==
    /\ GotSlice
    /\ call.result # <<>>
    /\ Cardinality(NotNewer) = 3
    /\ \E a, b \in NotNewer :
           /\ a.date < b.date
           /\ b.date = call.result[1].date
           /\ b # call.result[1]


----------------------------------------------------------------------------
(* The rows of a comparison table *)

Tabled ==
    /\ call.name = "stack_comparison"
    /\ call.pc = "returned"
    /\ ~call.result.raised

GtSlices == call.gt_stack.slices

(* the truth observations that are not "No Activity" and not a "Post        *)
(* Construction" observation after an earlier one                           *)
Retained ==
    {i \in DOMAIN GtSlices :
        /\ GtSlices[i].phase # <<"No Activity">>
        /\ GtSlices[i].phase = <<"Post Construction">>
               => \A j \in 1 .. i - 1 :
                      GtSlices[j].phase # <<"Post Construction">>}

ScoreOf(i) ==
    IF get_slice(call.sm_stack, GtSlices[i].date) = <<>> THEN QZero
    ELSE calc_iou(GtSlices[i].polygon,
                  get_slice(call.sm_stack, GtSlices[i].date)[1].polygon)

RowIsOf(row, i) ==
    /\ row.date = GtSlices[i].date
    /\ row.source = GtSlices[i].source
    /\ QEq(row.iou, ScoreOf(i))

(* C25: the comparison table has a row for a truth observation only if its  *)
(* phase is not "No Activity" and it is not a "Post Construction"           *)
(* observation after an earlier one; every truth date with a retained       *)
(* observation has exactly one row, the best-scoring one for that date.     *)
C25_RowsOfRetainedObservations ==
    Tabled =>
        /\ \A k \in DOMAIN call.result.df :
               \E i \in Retained : RowIsOf(call.result.df[k], i)
        /\ \A i \in Retained :
               \E k \in DOMAIN call.result.df :
                   /\ call.result.df[k].date = GtSlices[i].date
                   /\ QGeq(call.result.df[k].iou, ScoreOf(i))
                   /\ \A j \in DOMAIN call.result.df :
                          call.result.df[j].date = GtSlices[i].date => j = k

(* a truth stack with two retained observations of different scores on one  *)
(* date and a second "Post Construction" observation on a later date: one   *)
(* row, of the better one                                                   *)
C25_Witness ==
    /\ Tabled
    /\ Len(GtSlices) = 3
    /\ Retained = {1, 2}
    /\ GtSlices[1].date = GtSlices[2].date
    /\ GtSlices[3].date > GtSlices[2].date
    /\ GtSlices[3].phase = <<"Post Construction">>
    /\ QLess(ScoreOf(2), ScoreOf(1))
    /\ Len(call.result.df) = 1
    /\ RowIsOf(call.result.df[1], 1)


----------------------------------------------------------------------------
(* The activity window of a Track and the window of the region *)

Built == call.name = "SiteStack" /\ call.pc = "returned"

InRegion(date) ==
    RegionModel.start_date <= date /\ date <= RegionModel.end_date

(* C26: for every Track built by SiteStack whose resulting status is not an *)
(* unbounded variant, start_activity, end_activity and every date of        *)
(* activity_dates are on or after the region start date and on or before    *)
(* the region end date.                                                     *)
C26_ActivityInsideRegion ==
    Built /\ call.result.status \notin POSITIVE_UNBOUNDED_STATUS_TYPES =>
        /\ call.result.start_activity # NoneVal
               => InRegion(call.result.start_activity[1])
        /\ call.result.end_activity # NoneVal
               => InRegion(call.result.end_activity[1])
        /\ \A date \in call.result.activity_dates : InRegion(date)

(* the same for the Tracks of positive-activity truth sites and for the     *)
(* Tracks whose annotated dates reach into the region's window              *)
ActivityInsideRegionWhenOverlapping ==
    /\ Built
    /\ call.result.status \notin POSITIVE_UNBOUNDED_STATUS_TYPES
    /\ \/ call.result.status \in POSITIVE_ACTIVITY_STATUS_TYPES
       \/ /\ call.start_date # NoneVal => call.start_date[1] <= RegionModel.end_date
          /\ call.end_date # NoneVal => call.end_date[1] >= RegionModel.start_date
    => /\ call.result.start_activity # NoneVal
       /\ call.result.end_activity # NoneVal
       /\ InRegion(call.result.start_activity[1])
       /\ InRegion(call.result.end_activity[1])
       /\ \A date \in call.result.activity_dates : InRegion(date)


----------------------------------------------------------------------------
(* The parallel path of compare_stacks against the serial path *)

(* the proposals as submitted: the stacks that are not unions *)
RawIds == {sm_id \in DOMAIN sm_stacks : Len(sm_stacks[sm_id].sites) = 1}

(* the submitted proposals a truth site is paired with: footprints that     *)
(* intersect, date ranges that overlap                                      *)
SubmittedPairs(gt_id) ==
    {sm_id \in RawIds :
        /\ gt_sites[gt_id].polygon_union
               \cap sm_stacks[sm_id].polygon_union # {}
        /\ IF /\ gt_sites[gt_id].start_activity # <<>>
              /\ gt_sites[gt_id].end_activity # <<>>
           THEN /\ sm_stacks[sm_id].start_date[1]
                       <= gt_sites[gt_id].end_activity[1]
                /\ sm_stacks[sm_id].end_date[1]
                       >= gt_sites[gt_id].start_activity[1]
           ELSE /\ sm_stacks[sm_id].start_date[1]
                       <= gt_sites[gt_id].end_date[1]
                /\ sm_stacks[sm_id].end_date[1]
                       >= gt_sites[gt_id].start_date[1]}

SubmittedCandidates(gt_id) ==
    LET sm_ids == SortedIds(SubmittedPairs(gt_id))
    IN  [i \in DOMAIN sm_ids |-> sm_stacks[sm_ids[i]]]

(* the serial loop over the truth sites, from the proposals as submitted *)
RECURSIVE SerialPath(_, _)
SerialPath(order, acc) ==
    IF order = <<>> THEN acc
    ELSE SerialPath(Tail(order),
             SaveResults(Head(order),
                 segment_sites(gt_sites[Head(order)],
                               SubmittedCandidates(Head(order)),
                               QOne, QOne, cfg.confidence_score_thresholds),
                 acc))

SerialOutcome ==
    SerialPath(GtOrder,
        [comparisons |-> [gt_id \in GtIds |-> <<>>],
         stacks |-> [sm_id \in RawIds |-> sm_stacks[sm_id]]])

(* the parallel path has returned and no worker task had failed *)
ParallelDone ==
    /\ pc = "associate"
    /\ \A gt_id \in GtIds : mp.tasks[gt_id] = "handled"

(* C27: under every order in which the worker results arrive, the parallel  *)
(* path leaves the same stack_comparisons map and the same combined         *)
(* proposals in sm_stacks, observation lists included, as the serial path.  *)
C27_ParallelAsSerial ==
    ParallelDone =>
        \E serial \in {SerialOutcome} :
            /\ stack_comparisons = serial.comparisons
            /\ sm_stacks = serial.stacks

(* the tables and the ids of the registered stacks do not depend on the     *)
(* order of arrival; the stack registered for a union that several truth    *)
(* sites share is the one built for the truth site whose result is read     *)
(* first                                                                    *)
ParallelSameTablesAndIds ==
    ParallelDone =>
        \E serial \in {SerialOutcome} :
            /\ stack_comparisons = serial.comparisons
            /\ DOMAIN sm_stacks = DOMAIN serial.stacks
            /\ \A sm_id \in DOMAIN sm_stacks :
                   \E gt_id \in GtIds :
                       \E k \in DOMAIN mp.results[gt_id] :
                           \/ sm_stacks[sm_id] = mp.results[gt_id][k].stack
                           \/ sm_id \in RawIds


----------------------------------------------------------------------------
(* The end of the parallel path *)

Put == {gt_id \in GtIds : mp.tasks[gt_id] = "handled"}

(* while the loop collects, the counter is the number of results waiting in *)
(* the queue, and what was read and what waits is what the callback put     *)
CounterIsQueueLength ==
    pc = "collect" =>
        /\ mp.counter = Len(mp.queue)
        /\ Cardinality(mp.merged) + Len(mp.queue) = Cardinality(Put)

AllReadAtReturn ==
    pc = "associate" =>
        /\ mp.counter = 0
        /\ mp.queue = <<>>
        /\ mp.merged = Put

(* C28: once all worker tasks have ended the parallel path terminates: the  *)
(* collecting loop reads exactly as many results as the callback put, never *)
(* waits on an empty queue, and at the return the counter is 0 and no       *)
(* result is left unread in the queue.                                      *)
C28_CollectsAllAndReturns ==
    /\ []CounterIsQueueLength
    /\ []AllReadAtReturn
    /\ PoolDone ~> pc = "associate"

(* the path has returned after reading the results of both truth sites *)
C28_Witness ==
    /\ pc = "associate"
    /\ Cardinality(mp.merged) = 2
    /\ mp.counter = 0
    /\ \E gt_id \in mp.merged : DOMAIN stack_comparisons[gt_id] # {}


----------------------------------------------------------------------------
(* update_gt_statuses called for one activity type after another *)

Updated == call.name = "update_gt_statuses" /\ call.history # <<>>

(* what a single call with the last activity type leaves on the site as     *)
(* loaded                                                                   *)
SingleCall ==
    update_gt_statuses(call.loaded, call.history[Len(call.history)],
                       call.small_site_threshold, call.partially_contained)

(* C29: after every sequence of calls, the effective status, start_activity, *)
(* end_activity, activity_dates and len_activity of a truth site equal      *)
(* those produced by a single call with the last activity type on the site  *)
(* as loaded.                                                               *)
C29_HistoryIndependent ==
    Updated =>
        \E single \in {SingleCall} :
            /\ call.site.status = single.status
            /\ call.site.start_activity = single.start_activity
            /\ call.site.end_activity = single.end_activity
            /\ call.site.activity_dates = single.activity_dates
            /\ call.site.len_activity = single.len_activity

(* the effective status does not depend on the earlier calls; the activity  *)
(* dates do, once an earlier call has made the site an ignored one          *)
StatusHistoryIndependent ==
    Updated => call.site.status = SingleCall.status


----------------------------------------------------------------------------
(* Matched pairs and the proposals map of a row *)

(* the truth sites whose match has the proposal among its member sites *)
MatchedThrough(row, sm_id) ==
    {row.matched_pairs[i][1] :
        i \in {j \in DOMAIN row.matched_pairs :
                  sm_id \in Range(sm_stacks[row.matched_pairs[j][2]].sites)}}

(* C30: in every row each truth site is in at most one matched pair, and    *)
(* the proposals map is exactly the inverse of the matched pairs: a truth   *)
(* id is listed under a proposal if and only if the proposal is a member    *)
(* site of the proposal matched to that truth site.                         *)
C30_ProposalsInverseOfPairs ==
    \A row \in Rows :
        /\ \A i, j \in DOMAIN row.matched_pairs :
               row.matched_pairs[i][1] = row.matched_pairs[j][1] => i = j
        /\ MatchedMembers(row) \subseteq DOMAIN row.proposals
        /\ \A sm_id \in DOMAIN row.proposals :
               /\ Range(row.proposals[sm_id]) = MatchedThrough(row, sm_id)
               /\ Len(row.proposals[sm_id])
                      = Cardinality(MatchedThrough(row, sm_id))

(* a row in which one truth site is matched to a union of two proposals and *)
(* the other to a single proposal that is a member of that union            *)
C30_Witness ==
    \E row \in Rows :
        /\ Len(row.matched_pairs) = 2
        /\ \E i, j \in DOMAIN row.matched_pairs :
               /\ Members(row.matched_pairs[i][2]) = 2
               /\ Members(row.matched_pairs[j][2]) = 1
               /\ Len(row.proposals[row.matched_pairs[j][2]]) = 2



=============================================================================
